---- MODULE Spec2Model ----
(***************************************************************************)
(* Model of the watermark stylers (basic, neon, holographic, vintage,      *)
(* film-vintage, glass): the style merge, the position resolver, the       *)
(* filter (pipeline) builders and the promise each apply call returns      *)
(* around the external renderer (fluent-ffmpeg).                           *)
(*                                                                         *)
(* Encoding of numbers: opacities are in thousandths (0.85 is 850), so     *)
(* that products such as opacity*0.6 stay integral; speeds and intensities *)
(* with one decimal are in tenths (0.5 is 5).  Font sizes and pixel        *)
(* offsets are integers as in the source.                                  *)
(*                                                                         *)
(* A filter string is modelled by the sequence of its operations, each a   *)
(* record of the fields the template literal interpolates.  The field      *)
(* "layer" names the layer after the comment that introduces it in the     *)
(* source ("Main text layer", "Inner glow layer", ...).                    *)
(***************************************************************************)
EXTENDS Integers, Sequences, FiniteSets, TLC

VARIABLES
  defaultStyle,   \* this.defaultStyle of the one instance of each styler class
  pc,             \* per call: "idle", then the promise's state: "pending", "resolved", "rejected"
  req,            \* per call: what the caller passed (family, kind, paths, the override
                  \* argument as it was, the preset name it was looked up by)
  customStyle,    \* per call: the caller's override object, as it is after the call
  style,          \* per call: the local `style` the filter was built from
  pipeline,       \* per call: the filter handed to ffmpeg
  runs,           \* per call: how many times .run() was invoked
  started,        \* per call: a 'start' notification was delivered
  nProgress,      \* per call: 'progress' notifications delivered
  terminal,       \* per call: the renderer's terminal event ('end' or 'error' with its message)
  settleLog,      \* per call: every settlement of the promise, in order
  batch,          \* the createVariations call: its loop position and its results
  previous,       \* per caller: what it passed in the call before its current one
  downloader      \* the TikTokDownloader: its style registry, listings and download

vars == <<defaultStyle, pc, req, customStyle, style, pipeline, runs, started,
          nProgress, terminal, settleLog, batch, previous, downloader>>

(***************************************************************************)
(* Bounds of the model.                                                    *)
(***************************************************************************)
MaxProgress == 1    \* progress notifications tracked per call

\* The two concurrent calls of one caller.
Calls == {"a", "b"}

Families == {"basic", "neon", "holo", "vintage", "filmvint", "glass"}

(***************************************************************************)
(* JavaScript object semantics used by the stylers.                        *)
(***************************************************************************)

\* An object with no own property: the default `customStyle = {}`.
EmptyObject == [k \in {} |-> 0]

\* { ...defaults, ...overrides }: a fresh object; later spreads win.
MergeDefaultsWin(defaults, overrides) ==
  [k \in (DOMAIN defaults) \cup (DOMAIN overrides) |->
     IF k \in DOMAIN defaults THEN defaults[k] ELSE overrides[k]]

Merge(defaults, overrides) ==
  [k \in (DOMAIN defaults) \cup (DOMAIN overrides) |->
     IF k \in DOMAIN overrides THEN overrides[k] ELSE defaults[k]]

\* The effect of `const style = { ...this.defaultStyle, ...customStyle }` on the
\* three objects involved: the two operands are only read.
AssignIntoDefaults(defaults, overrides) ==
  [style |-> Merge(defaults, overrides),
   defaultStyle |-> Merge(defaults, overrides),
   customStyle |-> overrides]

SpreadStyle(defaults, overrides) ==
  [style |-> Merge(defaults, overrides),
   defaultStyle |-> defaults,
   customStyle |-> overrides]

\* Property names every object literal inherits from Object.prototype: a lookup
\* obj[key] with such a key finds the inherited member (a function or object,
\* hence truthy), not undefined.
ObjectPrototypeKeys ==
  {"constructor", "toString", "valueOf", "hasOwnProperty", "isPrototypeOf",
   "propertyIsEnumerable", "toLocaleString", "__proto__"}

(***************************************************************************)
(* Default styles (the constructors).                                      *)
(***************************************************************************)
BasicDefaultStyle ==
  [text |-> "Samuel", font |-> "Arial", fontSize |-> 48, fontColor |-> "white",
   opacity |-> 480, rotation |-> -6, position |-> "bottom-right",
   offsetX |-> 30, offsetY |-> 30, shadowColor |-> "black", shadowOffset |-> 2,
   enableShadow |-> TRUE, backgroundColor |-> "null", borderWidth |-> 0,
   borderColor |-> "black"]

NeonDefaultStyle ==
  [text |-> "NEON", font |-> "Arial Bold", fontSize |-> 52,
   primaryColor |-> "#00ffff", secondaryColor |-> "#ff00ff", glowColor |-> "#00ffff",
   opacity |-> 850, rotation |-> 0, position |-> "top-right",
   offsetX |-> 40, offsetY |-> 40, glowIntensity |-> 8, enableDoubleStroke |-> TRUE,
   strokeWidth |-> 3, animationSpeed |-> 5, blinkEffect |-> FALSE,
   scanlineEffect |-> TRUE]

HoloDefaultStyle ==
  [text |-> "HOLOGRAM", font |-> "Arial Bold", fontSize |-> 50,
   primaryColor |-> "#00ffff", secondaryColor |-> "#ff00ff",
   tertiaryColor |-> "#ffff00", accentColor |-> "#00ff00",
   opacity |-> 800, rotation |-> 0, position |-> "center",
   offsetX |-> 0, offsetY |-> 0, scanlineSpeed |-> 20, glitchIntensity |-> 3,
   chromaticAberration |-> 3, enableScanlines |-> TRUE, enableGlitch |-> TRUE,
   enableRainbow |-> TRUE, enableFlicker |-> FALSE, hologramDepth |-> 5,
   interferencePattern |-> TRUE, prismEffect |-> TRUE]

VintageDefaultStyle ==
  [text |-> "VINTAGE", font |-> "Times New Roman Bold", fontSize |-> 48,
   primaryColor |-> "#d4af37", shadowColor |-> "#8b4513", patina |-> "#2f4f2f",
   opacity |-> 750, rotation |-> 0, position |-> "bottom-center",
   offsetX |-> 0, offsetY |-> 50, shadowOffset |-> 3, enablePatina |-> TRUE,
   enableEmboss |-> TRUE, borderStyle |-> "ornate", borderWidth |-> 4,
   ageEffect |-> 300, sepia |-> TRUE, noise |-> 15, vignette |-> FALSE]

FilmVintDefaultStyle ==
  [text |-> "VINTAGE", font |-> "Georgia", fontSize |-> 42,
   primaryColor |-> "#f4e4c1", secondaryColor |-> "#8b4513",
   opacity |-> 750, rotation |-> 0, position |-> "bottom-center",
   offsetX |-> 0, offsetY |-> 50, filmGrain |-> TRUE, sepia |-> TRUE,
   vignette |-> TRUE, scratches |-> FALSE, borderStyle |-> "ornate",
   textureOverlay |-> TRUE, fadeInDuration |-> 20, typewriterEffect |-> FALSE]

GlassDefaultStyle ==
  [text |-> "GLASS", font |-> "Arial", fontSize |-> 46, textColor |-> "#ffffff",
   glassColor |-> "#ffffff", opacity |-> 150, textOpacity |-> 900, rotation |-> 0,
   position |-> "center", offsetX |-> 0, offsetY |-> 0, blurIntensity |-> 12,
   borderRadius |-> 20, backdropBlur |-> TRUE, gradientOverlay |-> TRUE,
   shimmerEffect |-> FALSE, pulseEffect |-> FALSE, borderWidth |-> 1,
   borderOpacity |-> 300, padding |-> 25, shadowIntensity |-> 200]

ConstructedDefaults ==
  [f \in Families |->
     CASE f = "basic" -> BasicDefaultStyle
       [] f = "neon" -> NeonDefaultStyle
       [] f = "holo" -> HoloDefaultStyle
       [] f = "vintage" -> VintageDefaultStyle
       [] f = "filmvint" -> FilmVintDefaultStyle
       [] f = "glass" -> GlassDefaultStyle]

(***************************************************************************)
(* Position resolvers.  A coordinate is what the template literal prints:  *)
(* a number, or an expression over ffmpeg's w, h, tw, th.                  *)
(***************************************************************************)
Anchors ==
  {"top-left", "top-right", "bottom-left", "bottom-right", "center",
   "top-center", "bottom-center"}

Px(n) == [form |-> "px", n |-> n]             \* the number n
RightOf(n) == [form |-> "w-tw-", n |-> n]     \* `w-tw-${n}`
BottomOf(n) == [form |-> "h-th-", n |-> n]    \* `h-th-${n}`
CenterX == [form |-> "(w-tw)/2", n |-> 0]
CenterY == [form |-> "(h-th)/2", n |-> 0]
UndefinedCoord == [form |-> "undefined", n |-> 0]  \* `${undefined}`

\* `${c}+${k}` and `${c}-${k}`
PlusPx(c, k) == [form |-> "plus", base |-> c, n |-> k]
MinusPx(c, k) == [form |-> "minus", base |-> c, n |-> k]

\* The `positions` object literal of every _calculatePosition.
Positions(offsetX, offsetY) ==
  [a \in Anchors |->
     CASE a = "top-left" -> [x |-> Px(offsetX), y |-> Px(offsetY)]
       [] a = "top-right" -> [x |-> RightOf(offsetX), y |-> Px(offsetY)]
       [] a = "bottom-left" -> [x |-> Px(offsetX), y |-> BottomOf(offsetY)]
       [] a = "bottom-right" -> [x |-> RightOf(offsetX), y |-> BottomOf(offsetY)]
       [] a = "center" -> [x |-> CenterX, y |-> CenterY]
       [] a = "top-center" -> [x |-> CenterX, y |-> Px(offsetY)]
       [] a = "bottom-center" -> [x |-> CenterX, y |-> BottomOf(offsetY)]]

\* positions[position] || positions[fallback].  An own key gives its entry; a key
\* inherited from Object.prototype gives a truthy function or object whose .x and
\* .y are undefined; any other key gives undefined, and the fallback is taken.
LookupOr(table, key, fallback) ==
  IF key \in DOMAIN table THEN table[key]
  ELSE IF key \in ObjectPrototypeKeys
       THEN [x |-> UndefinedCoord, y |-> UndefinedCoord]
       ELSE table[fallback]

Basic_calculatePosition(position, offsetX, offsetY) ==
  LookupOr(Positions(offsetX, offsetY), position, "bottom-right")

Neon_calculatePosition(position, offsetX, offsetY) ==
  LookupOr(Positions(offsetX, offsetY), position, "top-right")

Holo_calculatePosition(position, offsetX, offsetY) ==
  LookupOr(Positions(offsetX, offsetY), position, "center")

Vintage_calculatePosition(position, offsetX, offsetY) ==
  LookupOr(Positions(offsetX, offsetY), position, "bottom-center")

FilmVint_calculatePosition(position, offsetX, offsetY) ==
  LookupOr(Positions(offsetX, offsetY), position, "bottom-center")

\* The glass family resolves the panel, not the text: the formulas use the
\* estimated panel width and height (numbers, in tenths of a pixel) where the
\* other families use tw and th.
PanelRightOf(pw, n) == [form |-> "w-panelWidth-", p |-> pw, n |-> n]
PanelBottomOf(ph, n) == [form |-> "h-panelHeight-", p |-> ph, n |-> n]
PanelCenterX(pw) == [form |-> "(w-panelWidth)/2", p |-> pw, n |-> 0]
PanelCenterY(ph) == [form |-> "(h-panelHeight)/2", p |-> ph, n |-> 0]

GlassPositions(pw, ph, offsetX, offsetY) ==
  [a \in Anchors |->
     CASE a = "top-left" -> [x |-> Px(offsetX), y |-> Px(offsetY)]
       [] a = "top-right" -> [x |-> PanelRightOf(pw, offsetX), y |-> Px(offsetY)]
       [] a = "bottom-left" -> [x |-> Px(offsetX), y |-> PanelBottomOf(ph, offsetY)]
       [] a = "bottom-right" ->
            [x |-> PanelRightOf(pw, offsetX), y |-> PanelBottomOf(ph, offsetY)]
       [] a = "center" -> [x |-> PanelCenterX(pw), y |-> PanelCenterY(ph)]
       [] a = "top-center" -> [x |-> PanelCenterX(pw), y |-> Px(offsetY)]
       [] a = "bottom-center" -> [x |-> PanelCenterX(pw), y |-> PanelBottomOf(ph, offsetY)]]

\* textWidth = text.length * fontSize * 0.6, panel = text + 2 * padding; tenths of a pixel.
Glass_calculateGlassPosition(s) ==
  LET textWidth == Len(s.text) * s.fontSize * 6
      textHeight == s.fontSize * 10
      panelWidth == textWidth + s.padding * 2 * 10
      panelHeight == textHeight + s.padding * 2 * 10
      pos == LookupOr(GlassPositions(panelWidth, panelHeight, s.offsetX, s.offsetY),
                      s.position, "center")
  IN [x |-> pos.x, y |-> pos.y, width |-> panelWidth, height |-> panelHeight,
      textX |-> PlusPx(pos.x, s.padding), textY |-> PlusPx(pos.y, s.padding)]

(***************************************************************************)
(* Filter operations.                                                      *)
(***************************************************************************)
\* An opacity printed after "@": a number, or an expression over t.
Const(v) == [kind |-> "const", v |-> v]
\* `${base}*abs(sin(t*${speed}+${phase}))`; speed and phase in tenths
AbsSin(base, speed, phase) ==
  [kind |-> "abs_sin", base |-> base, speed |-> speed, phase |-> phase]
\* `if(mod(floor(t*${rate}),${m}),${on},${off})`: on when the remainder is not 0
IfMod(rate, m, on, off) ==
  [kind |-> "if_mod", rate |-> rate, m |-> m, on |-> on, off |-> off]

\* v * (tenths / 10)
Scale(v, tenths) == (v * tenths) \div 10

\* JavaScript truthiness of a string-valued style field (null is written "null").
Truthy(v) == v \notin {"", "null", "undefined"}

\* drawtext=text='..':fontsize=..:fontcolor=..@..:x=..:y=..:font='..'
DrawText(layer, text, fontsize, fontcolor, alpha, x, y, font) ==
  [op |-> "drawtext", layer |-> layer, text |-> text, fontsize |-> fontsize,
   fontcolor |-> fontcolor, alpha |-> alpha, x |-> x, y |-> y, font |-> font]

\* An optional suffix of a filter string.
Opt(cond, fields) == IF cond THEN fields ELSE EmptyObject

\* The operations of a filter that draw text, in order.  A labelled stage
\* (glass video) holds a comma-joined chain of operations.
RECURSIVE Flatten(_)
Flatten(p) ==
  IF p = <<>> THEN <<>>
  ELSE (IF Head(p).op = "stage" THEN Head(p).chain ELSE <<Head(p)>>) \o Flatten(Tail(p))

TextOps(p) == SelectSeq(Flatten(p), LAMBDA o : o.op = "drawtext")

(***************************************************************************)
(* Basic styler.                                                           *)
(***************************************************************************)
Basic_buildDrawTextFilter(s) ==
  LET position == Basic_calculatePosition(s.position, s.offsetX, s.offsetY)
      base == [op |-> "drawtext", layer |-> "main", text |-> s.text,
               fontsize |-> s.fontSize, fontcolor |-> s.fontColor,
               alpha |-> Const(s.opacity), x |-> position.x, y |-> position.y]
      angle == Opt(s.rotation # 0, [angleDegrees |-> s.rotation])
      font == Opt(Truthy(s.font) /\ s.font # "default", [font |-> s.font])
      shadow == Opt(s.enableShadow,
                    [shadowcolor |-> s.shadowColor, shadowx |-> s.shadowOffset,
                     shadowy |-> s.shadowOffset])
      box == Opt(Truthy(s.backgroundColor), [box |-> 1, boxcolor |-> s.backgroundColor])
      border == Opt(s.borderWidth > 0,
                    [borderw |-> s.borderWidth, bordercolor |-> s.borderColor])
  IN <<Merge(Merge(Merge(Merge(Merge(base, angle), font), shadow), box), border)>>

(***************************************************************************)
(* Neon styler.                                                            *)
(***************************************************************************)
\* The three glow layers, largest first, with their constant opacities.
NeonGlowLayersFaintestLast(s, position, a1, a2, a3) ==
  <<DrawText("base glow", s.text, s.fontSize + s.glowIntensity * 2, s.glowColor,
             Const(a3), position.x, position.y, s.font),
    DrawText("medium glow", s.text, s.fontSize + s.glowIntensity, s.glowColor,
             Const(a2), position.x, position.y, s.font),
    DrawText("inner glow", s.text, s.fontSize + 2, s.glowColor,
             Const(a1), position.x, position.y, s.font)>>

NeonGlowLayers(s, position, a1, a2, a3) ==
  <<DrawText("base glow", s.text, s.fontSize + s.glowIntensity * 2, s.glowColor,
             Const(a1), position.x, position.y, s.font),
    DrawText("medium glow", s.text, s.fontSize + s.glowIntensity, s.glowColor,
             Const(a2), position.x, position.y, s.font),
    DrawText("inner glow", s.text, s.fontSize + 2, s.glowColor,
             Const(a3), position.x, position.y, s.font)>>

NeonMainLayer(s, position) ==
  DrawText("main", s.text, s.fontSize, s.primaryColor, Const(s.opacity),
           position.x, position.y, s.font)

NeonStroke(s) == [borderw |-> s.strokeWidth, bordercolor |-> s.secondaryColor]

\* layers[last].replace(`@${opacity}`, `@${blinkModulation}`): String.replace
\* with a string pattern rewrites the first occurrence of "@<opacity>" in the
\* layer, and the display text is printed before the colour.  When the text
\* holds no such occurrence the first one is the opacity after the colour,
\* which becomes the step expression.
NeonBlink(s, layer) ==
  LET blinkModulation == IfMod(s.animationSpeed * 2, 2, s.opacity, Scale(s.opacity, 3))
      Digit(d) == SubSeq("0123456789", d + 1, d + 1)
      RECURSIVE Digits(_), Decimals(_, _)
      Digits(n) == IF n < 10 THEN Digit(n) ELSE Digits(n \div 10) \o Digit(n % 10)
      Decimals(f, unit) ==
        IF f = 0 THEN ""
        ELSE Digit((f * 10) \div unit) \o Decimals((f * 10) % unit, unit)
      \* `${n}` of a number held in units of 1/unit
      NumberToString(n, unit) ==
        LET a == IF n < 0 THEN 0 - n ELSE n
        IN (IF n < 0 THEN "-" ELSE "") \o Digits(a \div unit)
           \o (IF a % unit = 0 THEN "" ELSE "." \o Decimals(a % unit, unit))
      pattern == "@" \o NumberToString(s.opacity, 1000)
      replacement ==
        "@if(mod(floor(t*" \o NumberToString(blinkModulation.rate, 10) \o "),2),"
        \o NumberToString(blinkModulation.on, 1000) \o ","
        \o NumberToString(blinkModulation.off, 1000) \o ")"
      indexOf ==
        {i \in 1..(Len(layer.text) - Len(pattern) + 1) :
           SubSeq(layer.text, i, i + Len(pattern) - 1) = pattern}
      first == CHOOSE i \in indexOf : \A j \in indexOf : i <= j
  IN IF indexOf = {}
     THEN [layer EXCEPT !.alpha = blinkModulation]
     ELSE [layer EXCEPT !.text =
             SubSeq(layer.text, 1, first - 1) \o replacement
             \o SubSeq(layer.text, first + Len(pattern), Len(layer.text))]

Neon_buildNeonFilterBlinkPushed(s) ==
  LET position == Neon_calculatePosition(s.position, s.offsetX, s.offsetY)
      glow == NeonGlowLayers(s, position, 200, 400, 600)
      main == IF s.enableDoubleStroke
              THEN Merge(NeonMainLayer(s, position), NeonStroke(s))
              ELSE NeonMainLayer(s, position)
  IN IF s.blinkEffect
     THEN Append(Append(glow, main), NeonBlink(s, main))
     ELSE Append(glow, main)

Neon_buildNeonFilter(s) ==
  LET position == Neon_calculatePosition(s.position, s.offsetX, s.offsetY)
      glow == NeonGlowLayers(s, position, 200, 400, 600)
      main == IF s.enableDoubleStroke
              THEN Merge(NeonMainLayer(s, position), NeonStroke(s))
              ELSE NeonMainLayer(s, position)
      last == IF s.blinkEffect THEN NeonBlink(s, main) ELSE main
  IN Append(glow, last)

Neon_buildStaticNeonFilter(s) ==
  LET position == Neon_calculatePosition(s.position, s.offsetX, s.offsetY)
  IN Append(NeonGlowLayers(s, position, 150, 300, 500),
            Merge(NeonMainLayer(s, position), NeonStroke(s)))

(***************************************************************************)
(* Holographic styler.                                                     *)
(***************************************************************************)
RainbowColors ==
  <<"#ff0000", "#ff7f00", "#ffff00", "#00ff00", "#0000ff", "#4b0082", "#9400d3">>

\* forEach((color, index) => ...): index runs from 0
HoloRainbow(s, position, animated) ==
  [i \in 1..Len(RainbowColors) |->
     DrawText("rainbow", s.text, s.fontSize, RainbowColors[i],
              IF animated
              THEN AbsSin(Scale(s.opacity, 6), s.scanlineSpeed, (i - 1) * 5)
              ELSE Const(Scale(s.opacity, 4)),
              PlusPx(position.x, i - 1), PlusPx(position.y, i - 1), s.font)]

HoloChromatic(s, position, tenths) ==
  LET offset == s.chromaticAberration
  IN <<DrawText("chromatic", s.text, s.fontSize, "#ff0000", Const(Scale(s.opacity, tenths)),
                MinusPx(position.x, offset), position.y, s.font),
       DrawText("chromatic", s.text, s.fontSize, "#00ff00", Const(Scale(s.opacity, tenths)),
                position.x, position.y, s.font),
       DrawText("chromatic", s.text, s.fontSize, "#0000ff", Const(Scale(s.opacity, tenths)),
                PlusPx(position.x, offset), position.y, s.font)>>

HoloInterference(s, position) ==
  <<DrawText("interference", s.text, s.fontSize + 2, s.primaryColor,
             AbsSin(Scale(s.opacity, 4), s.scanlineSpeed * 3, 0),
             position.x, position.y, s.font)>>

HoloGlitch(s, position) ==
  <<DrawText("glitch", s.text, s.fontSize, s.secondaryColor,
             IfMod(s.scanlineSpeed * 4, 8, s.opacity, Scale(s.opacity, 3)),
             [form |-> "sin", base |-> position.x, amp |-> s.glitchIntensity * 10,
              speed |-> s.scanlineSpeed * 5],
             [form |-> "cos", base |-> position.y, amp |-> s.glitchIntensity * 5,
              speed |-> s.scanlineSpeed * 7],
             s.font)>>

HoloPrism(s, position, colors, animated) ==
  [i \in 1..Len(colors) |->
     DrawText("prism", s.text, s.fontSize, colors[i],
              IF animated
              THEN AbsSin(Scale(s.opacity, 8), s.scanlineSpeed, (i - 1) * 10)
              ELSE Const(Scale(s.opacity, 7)),
              PlusPx(position.x, (i - 1) * 2), PlusPx(position.y, (i - 1) * 2), s.font)]

HoloFlicker(s, position) ==
  <<DrawText("flicker", s.text, s.fontSize, s.primaryColor,
             IfMod(s.scanlineSpeed * 8, 3, s.opacity, Scale(s.opacity, 1)),
             position.x, position.y, s.font)>>

Holo_buildHolographicFilter(s) ==
  LET position == Holo_calculatePosition(s.position, s.offsetX, s.offsetY)
  IN (IF s.enableRainbow THEN HoloRainbow(s, position, TRUE) ELSE <<>>)
     \o (IF s.chromaticAberration > 0 THEN HoloChromatic(s, position, 7) ELSE <<>>)
     \o (IF s.interferencePattern THEN HoloInterference(s, position) ELSE <<>>)
     \o (IF s.enableGlitch THEN HoloGlitch(s, position) ELSE <<>>)
     \o (IF s.prismEffect
         THEN HoloPrism(s, position,
                        <<s.primaryColor, s.secondaryColor, s.tertiaryColor, s.accentColor>>,
                        TRUE)
         ELSE <<>>)
     \o (IF s.enableFlicker THEN HoloFlicker(s, position) ELSE <<>>)

Holo_buildStaticHolographicFilter(s) ==
  LET position == Holo_calculatePosition(s.position, s.offsetX, s.offsetY)
  IN (IF s.enableRainbow THEN HoloRainbow(s, position, FALSE) ELSE <<>>)
     \o (IF s.chromaticAberration > 0 THEN HoloChromatic(s, position, 6) ELSE <<>>)
     \o (IF s.prismEffect
         THEN HoloPrism(s, position,
                        <<s.primaryColor, s.secondaryColor, s.tertiaryColor>>, FALSE)
         ELSE <<>>)

(***************************************************************************)
(* Vintage styler (vintage.js).                                            *)
(***************************************************************************)
NaNCoord == [form |-> "NaN", n |-> 0]

\* parseInt(c.toString()) + delta: a number stays a number, an expression over
\* w, h, tw, th does not start with a digit and parses to NaN.
ParseIntPlus(c, delta) == IF c.form = "px" THEN Px(c.n + delta) ELSE NaNCoord

\* undefined.toString() raises a TypeError.
VintageEmbossThrows(s) ==
  LET position == Vintage_calculatePosition(s.position, s.offsetX, s.offsetY)
  IN s.enableEmboss /\ (position.x.form = "undefined" \/ position.y.form = "undefined")

PrePass(name, arg) == [op |-> name, layer |-> "tone", arg |-> arg]

Vintage_createOrnateBorder(s, position) ==
  [op |-> "drawbox", layer |-> "border",
   x |-> MinusPx(position.x, s.borderWidth * 4),
   y |-> MinusPx(position.y, s.borderWidth * 2),
   w |-> [form |-> "tw+", n |-> s.borderWidth * 8],
   h |-> [form |-> "th+", n |-> s.borderWidth * 4],
   color |-> s.patina, alpha |-> Const(s.ageEffect), t |-> s.borderWidth]

Vintage_buildMainVintageText(s, position) ==
  Merge(DrawText("main", s.text, s.fontSize, s.primaryColor, Const(s.opacity),
                 position.x, position.y, s.font),
        Opt(s.borderWidth > 0,
            [borderw |-> s.borderWidth, bordercolor |-> s.shadowColor,
             borderalpha |-> Const(Scale(s.opacity, 8))]))

VintagePatina(s, position) ==
  DrawText("patina", s.text, s.fontSize + 1, s.patina, Const(s.ageEffect),
           position.x, position.y, s.font)

\* The video build with the border box pushed after the embossed text.
Vintage_buildVintageFilterBorderLate(s) ==
  LET position == Vintage_calculatePosition(s.position, s.offsetX, s.offsetY)
  IN (IF s.sepia THEN <<PrePass("colorchannelmixer", 0)>> ELSE <<>>)
     \o (IF s.noise > 0 THEN <<PrePass("noise", s.noise)>> ELSE <<>>)
     \o (IF s.vignette THEN <<PrePass("vignette", 4)>> ELSE <<>>)
     \o (IF s.enableEmboss
         THEN <<DrawText("emboss", s.text, s.fontSize, s.shadowColor,
                         Const(Scale(s.opacity, 6)),
                         ParseIntPlus(position.x, s.shadowOffset),
                         ParseIntPlus(position.y, s.shadowOffset), s.font)>>
         ELSE <<>>)
     \o (IF s.borderStyle = "ornate"
         THEN <<Vintage_createOrnateBorder(s, position)>> ELSE <<>>)
     \o (IF s.enablePatina THEN <<VintagePatina(s, position)>> ELSE <<>>)
     \o <<Vintage_buildMainVintageText(s, position)>>

Vintage_buildVintageFilter(s) ==
  LET position == Vintage_calculatePosition(s.position, s.offsetX, s.offsetY)
  IN (IF s.sepia THEN <<PrePass("colorchannelmixer", 0)>> ELSE <<>>)
     \o (IF s.noise > 0 THEN <<PrePass("noise", s.noise)>> ELSE <<>>)
     \o (IF s.vignette THEN <<PrePass("vignette", 4)>> ELSE <<>>)
     \o (IF s.borderStyle = "ornate"
         THEN <<Vintage_createOrnateBorder(s, position)>> ELSE <<>>)
     \o (IF s.enableEmboss
         THEN <<DrawText("emboss", s.text, s.fontSize, s.shadowColor,
                         Const(Scale(s.opacity, 6)),
                         ParseIntPlus(position.x, s.shadowOffset),
                         ParseIntPlus(position.y, s.shadowOffset), s.font)>>
         ELSE <<>>)
     \o (IF s.enablePatina THEN <<VintagePatina(s, position)>> ELSE <<>>)
     \o <<Vintage_buildMainVintageText(s, position)>>

Vintage_buildStaticVintageFilter(s) ==
  LET position == Vintage_calculatePosition(s.position, s.offsetX, s.offsetY)
  IN (IF s.sepia THEN <<PrePass("colorchannelmixer", 0)>> ELSE <<>>)
     \o (IF s.borderStyle = "ornate"
         THEN <<Vintage_createOrnateBorder(s, position)>> ELSE <<>>)
     \o (IF s.enableEmboss
         THEN <<DrawText("emboss", s.text, s.fontSize, s.shadowColor,
                         Const(Scale(s.opacity, 6)),
                         PlusPx(position.x, s.shadowOffset),
                         PlusPx(position.y, s.shadowOffset), s.font)>>
         ELSE <<>>)
     \o (IF s.enablePatina THEN <<VintagePatina(s, position)>> ELSE <<>>)
     \o <<Vintage_buildMainVintageText(s, position)>>

(***************************************************************************)
(* Film-vintage styler (filmvint.js, class VintageWatermarkStyler).        *)
(***************************************************************************)
\* Four corner boxes of fixed geometry.
FilmVint_createOrnateBorder ==
  [i \in 1..4 |-> [op |-> "drawbox", layer |-> "border", corner |-> i,
                   color |-> "white", alpha |-> Const(700)]]

\* decorativeLine, mainText, leftDot, rightDot, joined in that order
FilmVint_createVintageText(s, position) ==
  <<[op |-> "drawbox", layer |-> "underline", x |-> position.x,
     y |-> [form |-> "+th+5", base |-> position.y], color |-> s.secondaryColor,
     alpha |-> Const(600)],
    Merge(DrawText("main", s.text, s.fontSize, s.primaryColor, Const(s.opacity),
                   position.x, position.y, s.font),
          [borderw |-> 1, bordercolor |-> s.secondaryColor, shadowx |-> 2, shadowy |-> 2]),
    DrawText("left dot", "dot", s.fontSize * 4, s.secondaryColor, Const(s.opacity),
             MinusPx(position.x, 30), PlusPx(position.y, s.fontSize * 3), s.font),
    DrawText("right dot", "dot", s.fontSize * 4, s.secondaryColor, Const(s.opacity),
             [form |-> "+tw+15", base |-> position.x],
             PlusPx(position.y, s.fontSize * 3), s.font)>>

FilmVint_createTypewriterEffect(s, position) ==
  <<Merge(DrawText("main", s.text, s.fontSize, s.primaryColor, Const(s.opacity),
                   position.x, position.y, s.font),
          [borderw |-> 1, bordercolor |-> s.secondaryColor,
           expansionChars |-> Len(s.text)])>>

FilmVint_buildVintageFilter(s) ==
  LET position == FilmVint_calculatePosition(s.position, s.offsetX, s.offsetY)
  IN (IF s.sepia THEN <<PrePass("colorchannelmixer", 0)>> ELSE <<>>)
     \o (IF s.filmGrain THEN <<PrePass("noise", 3)>> ELSE <<>>)
     \o (IF s.vignette THEN <<PrePass("vignette", 4)>> ELSE <<>>)
     \o (IF s.borderStyle = "ornate" THEN FilmVint_createOrnateBorder ELSE <<>>)
     \o (IF s.typewriterEffect
         THEN FilmVint_createTypewriterEffect(s, position)
         ELSE FilmVint_createVintageText(s, position))

FilmVint_buildStaticVintageFilter(s) ==
  LET position == FilmVint_calculatePosition(s.position, s.offsetX, s.offsetY)
  IN (IF s.sepia THEN <<PrePass("colorchannelmixer", 0)>> ELSE <<>>)
     \o (IF s.vignette THEN <<PrePass("vignette", 4)>> ELSE <<>>)
     \o FilmVint_createVintageText(s, position)

(***************************************************************************)
(* Glass styler (filmvint.js, class GlassMorphismWatermarkStyler).         *)
(***************************************************************************)
\* textX is the string `${pos.x}+${padding}`: textX + 2 appends the digit 2 to
\* it, and textY - 1 converts a string that is no number, which gives NaN.
AppendDigit(c, d) == [c EXCEPT !.n = c.n * 10 + d]

Glass_createGlassText(s, position) ==
  <<DrawText("depth", s.text, s.fontSize, s.textColor, Const(Scale(s.textOpacity, 3)),
             AppendDigit(position.textX, 2), AppendDigit(position.textY, 2), s.font),
    DrawText("main", s.text, s.fontSize, s.textColor, Const(s.textOpacity),
             position.textX, position.textY, s.font),
    DrawText("highlight", s.text, s.fontSize, s.textColor, Const(Scale(s.textOpacity, 4)),
             position.textX, NaNCoord, s.font)>>

GlassPanel(s, position, layer, heightDivisor, alpha) ==
  [op |-> "drawbox", layer |-> layer, x |-> position.x, y |-> position.y,
   w |-> position.width, h |-> position.height, hDivisor |-> heightDivisor,
   color |-> s.glassColor, alpha |-> Const(alpha), t |-> "fill"]

GlassBorder(s, position) ==
  [op |-> "drawbox", layer |-> "border", x |-> position.x, y |-> position.y,
   w |-> position.width, h |-> position.height, color |-> s.glassColor,
   alpha |-> Const(s.borderOpacity), t |-> s.borderWidth]

Glass_createShimmerEffect(s, position) ==
  [op |-> "drawbox", layer |-> "shimmer", x |-> [form |-> "sweep", base |-> position.x,
                                               span |-> position.width, bar |-> 30,
                                               speed |-> 20],
   y |-> position.y, w |-> 30, h |-> position.height, color |-> "white",
   alpha |-> Const(300), t |-> "fill"]

\* [in]chain[out]; a split has two outputs
StageIntoFinal(in, chain, out) ==
  [op |-> "stage", in |-> in, chain |-> chain, out |-> <<"final">>]

Stage(in, chain, out) == [op |-> "stage", in |-> in, chain |-> chain, out |-> out]
NullOp == [op |-> "null", layer |-> "pass"]

Glass_buildGlassFilter(s) ==
  LET position == Glass_calculateGlassPosition(s)
  IN <<Stage("0:v", <<[op |-> "split", layer |-> "pass", n |-> 2]>>, <<"main", "blur">>),
       Stage("blur", <<[op |-> "crop", layer |-> "blur", w |-> position.width,
                        h |-> position.height, x |-> position.x, y |-> position.y],
                       [op |-> "gblur", layer |-> "blur", sigma |-> s.blurIntensity]>>,
             <<"blurred_bg">>)>>
     \o (IF s.gradientOverlay
         THEN <<Stage("main", <<GlassPanel(s, position, "panel", 1, s.opacity)>>,
                      <<"glass_base">>),
                Stage("glass_base",
                      <<GlassPanel(s, position, "gradient", 3, Scale(s.opacity, 5))>>,
                      <<"glass_gradient">>)>>
         ELSE <<Stage("main", <<GlassPanel(s, position, "panel", 1, s.opacity)>>,
                      <<"glass_gradient">>)>>)
     \o <<Stage("glass_gradient",
                IF s.borderWidth > 0 THEN <<GlassBorder(s, position)>> ELSE <<NullOp>>,
                <<"glass_border">>),
          Stage("glass_border", Glass_createGlassText(s, position), <<"glass_complete">>),
          Stage("glass_complete",
                IF s.shimmerEffect
                THEN <<Glass_createShimmerEffect(s, position)>> ELSE <<NullOp>>,
                <<"final">>)>>

Glass_buildStaticGlassFilter(s) ==
  LET position == Glass_calculateGlassPosition(s)
  IN <<GlassPanel(s, position, "panel", 1, s.opacity)>>
     \o (IF s.gradientOverlay
         THEN <<GlassPanel(s, position, "gradient", 3, Scale(s.opacity, 5))>> ELSE <<>>)
     \o (IF s.borderWidth > 0 THEN <<GlassBorder(s, position)>> ELSE <<>>)
     \o Glass_createGlassText(s, position)

(***************************************************************************)
(* The filter each apply entry point builds.                               *)
(***************************************************************************)
BuildFilter(family, kind, s) ==
  CASE family = "basic" -> Basic_buildDrawTextFilter(s)
    [] family = "neon" /\ kind = "video" -> Neon_buildNeonFilter(s)
    [] family = "neon" /\ kind = "image" -> Neon_buildStaticNeonFilter(s)
    [] family = "holo" /\ kind = "video" -> Holo_buildHolographicFilter(s)
    [] family = "holo" /\ kind = "image" -> Holo_buildStaticHolographicFilter(s)
    [] family = "vintage" /\ kind = "video" -> Vintage_buildVintageFilter(s)
    [] family = "vintage" /\ kind = "image" -> Vintage_buildStaticVintageFilter(s)
    [] family = "filmvint" /\ kind = "video" -> FilmVint_buildVintageFilter(s)
    [] family = "filmvint" /\ kind = "image" -> FilmVint_buildStaticVintageFilter(s)
    [] family = "glass" /\ kind = "video" -> Glass_buildGlassFilter(s)
    [] family = "glass" /\ kind = "image" -> Glass_buildStaticGlassFilter(s)

\* applyToVideo is no async function: the build raises out of the call, before
\* any promise exists and before the renderer is reached.
BuildThrows(family, kind, s) ==
  family = "vintage" /\ kind = "video" /\ VintageEmbossThrows(s)

(***************************************************************************)
(* Preset catalogs (getPresetStyles of each styler).                       *)
(***************************************************************************)
BasicPresets ==
  "samuel" :> [text |-> "Samuel", fontSize |-> 48, fontColor |-> "white", opacity |-> 480,
               rotation |-> -6, position |-> "bottom-right", offsetX |-> 30,
               offsetY |-> 30, enableShadow |-> TRUE]
  @@ "subtle" :> [text |-> "Watermark", fontSize |-> 32, fontColor |-> "white",
                  opacity |-> 300, rotation |-> 0, position |-> "bottom-right",
                  offsetX |-> 20, offsetY |-> 20, enableShadow |-> FALSE]
  @@ "bold" :> [text |-> "BRAND", fontSize |-> 64, fontColor |-> "white", opacity |-> 800,
                rotation |-> 0, position |-> "center", enableShadow |-> TRUE,
                shadowOffset |-> 3]
  @@ "corner" :> [text |-> "(c) 2025", fontSize |-> 24, fontColor |-> "white",
                  opacity |-> 600, rotation |-> 0, position |-> "bottom-left",
                  offsetX |-> 15, offsetY |-> 15, enableShadow |-> TRUE]

NeonPresets ==
  "cyberpunk" :> [text |-> "CYBER", primaryColor |-> "#00ffff", secondaryColor |-> "#ff00ff",
                  glowColor |-> "#00ffff", fontSize |-> 48, glowIntensity |-> 10,
                  blinkEffect |-> TRUE, position |-> "center"]
  @@ "retro" :> [text |-> "RETRO", primaryColor |-> "#ff6b9d", secondaryColor |-> "#4ecdc4",
                 glowColor |-> "#ff6b9d", fontSize |-> 56, glowIntensity |-> 6,
                 position |-> "top-center"]
  @@ "electric" :> [text |-> "ELECTRIC", primaryColor |-> "#ffff00",
                    secondaryColor |-> "#0000ff", glowColor |-> "#ffffff", fontSize |-> 44,
                    glowIntensity |-> 12, animationSpeed |-> 20,
                    position |-> "bottom-right"]
  @@ "minimal" :> [text |-> "MINIMAL", primaryColor |-> "#ffffff",
                   secondaryColor |-> "#00ffff", glowColor |-> "#00ffff", fontSize |-> 36,
                   glowIntensity |-> 4, opacity |-> 700, position |-> "bottom-left"]
  @@ "synthwave" :> [text |-> "SYNTHWAVE", primaryColor |-> "#ff007f",
                     secondaryColor |-> "#00d4ff", glowColor |-> "#ff007f", fontSize |-> 40,
                     glowIntensity |-> 8, blinkEffect |-> FALSE, position |-> "top-right"]

HoloPresets ==
  "cyberpunk" :> [text |-> "CYBERPUNK", primaryColor |-> "#00ffff",
                  secondaryColor |-> "#ff00ff", tertiaryColor |-> "#ffff00",
                  enableRainbow |-> TRUE, chromaticAberration |-> 4, scanlineSpeed |-> 25,
                  position |-> "center"]
  @@ "matrix" :> [text |-> "MATRIX", primaryColor |-> "#00ff00", secondaryColor |-> "#00aa00",
                  tertiaryColor |-> "#008800", enableRainbow |-> FALSE,
                  enableGlitch |-> TRUE, glitchIntensity |-> 4, position |-> "top-left"]
  @@ "quantum" :> [text |-> "QUANTUM", primaryColor |-> "#4169e1",
                   secondaryColor |-> "#ff1493", tertiaryColor |-> "#00ced1",
                   accentColor |-> "#ffd700", chromaticAberration |-> 6,
                   interferencePattern |-> TRUE, position |-> "bottom-right"]
  @@ "spectrum" :> [text |-> "SPECTRUM", primaryColor |-> "#ff0080",
                    secondaryColor |-> "#0080ff", tertiaryColor |-> "#80ff00",
                    accentColor |-> "#ff8000", enableRainbow |-> TRUE, prismEffect |-> TRUE,
                    scanlineSpeed |-> 30, position |-> "center"]
  @@ "glitch" :> [text |-> "GLITCH", primaryColor |-> "#ff0040", secondaryColor |-> "#00ff80",
                  tertiaryColor |-> "#8000ff", enableGlitch |-> TRUE, enableFlicker |-> TRUE,
                  glitchIntensity |-> 6, chromaticAberration |-> 8, position |-> "top-right"]
  @@ "holodeck" :> [text |-> "HOLODECK", primaryColor |-> "#ffd700",
                    secondaryColor |-> "#ff6347", tertiaryColor |-> "#00bfff",
                    accentColor |-> "#98fb98", interferencePattern |-> TRUE,
                    prismEffect |-> TRUE, scanlineSpeed |-> 18, position |-> "bottom-center"]

VintagePresets ==
  "classic" :> [text |-> "CLASSIC", primaryColor |-> "#d4af37", shadowColor |-> "#8b4513",
                patina |-> "#2f4f2f", fontSize |-> 52, sepia |-> TRUE,
                enableEmboss |-> TRUE, position |-> "bottom-center"]
  @@ "antique" :> [text |-> "ANTIQUE", primaryColor |-> "#cd853f", shadowColor |-> "#8b4513",
                   patina |-> "#556b2f", fontSize |-> 48, borderStyle |-> "ornate",
                   borderWidth |-> 6, ageEffect |-> 400, position |-> "center"]
  @@ "oldFilm" :> [text |-> "OLD FILM", primaryColor |-> "#f5deb3", shadowColor |-> "#8b7355",
                   patina |-> "#696969", fontSize |-> 44, sepia |-> TRUE, noise |-> 20,
                   vignette |-> TRUE, position |-> "top-left"]
  @@ "rustic" :> [text |-> "RUSTIC", primaryColor |-> "#a0522d", shadowColor |-> "#8b4513",
                  patina |-> "#2f4f2f", fontSize |-> 56, enablePatina |-> TRUE,
                  ageEffect |-> 500, position |-> "bottom-right"]
  @@ "elegant" :> [text |-> "ELEGANT", primaryColor |-> "#b8860b", shadowColor |-> "#8b7355",
                   patina |-> "#2f2f2f", fontSize |-> 40, borderStyle |-> "ornate",
                   enableEmboss |-> TRUE, position |-> "top-center"]
  @@ "stamp" :> [text |-> "CERTIFIED", primaryColor |-> "#8b0000", shadowColor |-> "#696969",
                 patina |-> "#2f2f2f", fontSize |-> 36, borderStyle |-> "stamp",
                 rotation |-> -12, position |-> "bottom-left"]

FilmVintPresets ==
  "classic" :> [text |-> "CLASSIC", primaryColor |-> "#f4e4c1", secondaryColor |-> "#8b4513",
                fontSize |-> 48, sepia |-> TRUE, vignette |-> TRUE,
                borderStyle |-> "ornate", position |-> "bottom-center"]
  @@ "silent_film" :> [text |-> "SILENT ERA", primaryColor |-> "#ffffff",
                       secondaryColor |-> "#000000", fontSize |-> 52, sepia |-> FALSE,
                       filmGrain |-> TRUE, typewriterEffect |-> TRUE,
                       position |-> "bottom-center"]
  @@ "golden_age" :> [text |-> "GOLDEN AGE", primaryColor |-> "#ffd700",
                      secondaryColor |-> "#8b4513", fontSize |-> 44, sepia |-> TRUE,
                      vignette |-> TRUE, borderStyle |-> "ornate", position |-> "top-center"]
  @@ "daguerreotype" :> [text |-> "DAGUERREOTYPE", primaryColor |-> "#e6e6fa",
                         secondaryColor |-> "#2f2f2f", fontSize |-> 36, sepia |-> FALSE,
                         vignette |-> TRUE, filmGrain |-> TRUE, position |-> "bottom-right"]
  @@ "art_deco" :> [text |-> "ART DECO", primaryColor |-> "#c9b037",
                    secondaryColor |-> "#000000", fontSize |-> 56, sepia |-> FALSE,
                    borderStyle |-> "ornate", position |-> "center"]

GlassPresets ==
  "modern" :> [text |-> "MODERN", glassColor |-> "#ffffff", textColor |-> "#ffffff",
               opacity |-> 150, textOpacity |-> 950, blurIntensity |-> 15,
               borderRadius |-> 25, gradientOverlay |-> TRUE, position |-> "bottom-right"]
  @@ "minimal" :> [text |-> "MINIMAL", glassColor |-> "#000000", textColor |-> "#ffffff",
                   opacity |-> 100, textOpacity |-> 800, blurIntensity |-> 10,
                   borderWidth |-> 0, gradientOverlay |-> FALSE, position |-> "center"]
  @@ "colorful" :> [text |-> "COLORFUL", glassColor |-> "#ff6b9d", textColor |-> "#ffffff",
                    opacity |-> 200, textOpacity |-> 1000, blurIntensity |-> 12,
                    gradientOverlay |-> TRUE, shimmerEffect |-> TRUE,
                    position |-> "top-center"]
  @@ "premium" :> [text |-> "PREMIUM", glassColor |-> "#ffd700", textColor |-> "#ffffff",
                   opacity |-> 120, textOpacity |-> 900, blurIntensity |-> 18,
                   borderWidth |-> 2, borderOpacity |-> 400, gradientOverlay |-> TRUE,
                   position |-> "bottom-center"]
  @@ "subtle" :> [text |-> "SUBTLE", glassColor |-> "#ffffff", textColor |-> "#000000",
                  opacity |-> 50, textOpacity |-> 700, blurIntensity |-> 8,
                  borderWidth |-> 1, borderOpacity |-> 100, gradientOverlay |-> FALSE,
                  position |-> "top-left"]

getPresetStyles(family) ==
  CASE family = "basic" -> BasicPresets
    [] family = "neon" -> NeonPresets
    [] family = "holo" -> HoloPresets
    [] family = "vintage" -> VintagePresets
    [] family = "filmvint" -> FilmVintPresets
    [] family = "glass" -> GlassPresets

\* An argument a caller passes: an object, or undefined.
Defined(obj) == [defined |-> TRUE, obj |-> obj]
Undefined == [defined |-> FALSE, obj |-> EmptyObject]

\* presets[name] (or presets.name), as the usage examples pass it to an apply
\* call: a name the catalog does not hold gives undefined.
PresetArgument(family, name) ==
  LET presets == getPresetStyles(family)
  IN IF name \in DOMAIN presets THEN Defined(presets[name]) ELSE Undefined

\* The default parameter `customStyle = {}` applies to an undefined argument.
DefaultParameter(arg) == IF arg.defined THEN arg.obj ELSE EmptyObject

(***************************************************************************)
(* Inputs the callers are drawn from.                                      *)
(***************************************************************************)
\* Anchor strings a caller may pass: the seven names, a typo, and two names
\* that Object.prototype defines.
AnchorInputs == Anchors \cup {"middle", "constructor", "toString"}
OffsetInputs == {0, 30}

AnchorOverrides ==
  {[position |-> a, offsetX |-> ox, offsetY |-> oy] :
     a \in AnchorInputs, ox \in OffsetInputs, oy \in OffsetInputs}

ToggleOverrides(family) ==
  CASE family = "basic" ->
         {[rotation |-> r, enableShadow |-> sh, borderWidth |-> bw, backgroundColor |-> bg] :
            r \in {0, -10}, sh \in BOOLEAN, bw \in {0, 2}, bg \in {"null", "black"}}
    [] family = "neon" ->
         {[fontSize |-> f, glowIntensity |-> g, blinkEffect |-> b, enableDoubleStroke |-> d] :
            f \in {36, 52}, g \in {0, 1, 8}, b \in BOOLEAN, d \in BOOLEAN}
    [] family = "holo" ->
         {[enableRainbow |-> r, interferencePattern |-> i, enableGlitch |-> g,
           prismEffect |-> pr, enableFlicker |-> f, chromaticAberration |-> c] :
            r \in BOOLEAN, i \in BOOLEAN, g \in BOOLEAN, pr \in BOOLEAN, f \in BOOLEAN,
            c \in {0, 3}}
    [] family = "vintage" ->
         {[sepia |-> se, noise |-> n, vignette |-> v, borderStyle |-> b,
           enableEmboss |-> e, enablePatina |-> pa] :
            se \in BOOLEAN, n \in {0, 15}, v \in BOOLEAN, b \in {"ornate", "stamp"},
            e \in BOOLEAN, pa \in BOOLEAN}
    [] family = "filmvint" ->
         {[sepia |-> se, filmGrain |-> g, vignette |-> v, borderStyle |-> b,
           typewriterEffect |-> t] :
            se \in BOOLEAN, g \in BOOLEAN, v \in BOOLEAN, b \in {"ornate", "none"},
            t \in BOOLEAN}
    [] family = "glass" ->
         {[gradientOverlay |-> g, borderWidth |-> bw, shimmerEffect |-> sh] :
            g \in BOOLEAN, bw \in {0, 1}, sh \in BOOLEAN}

\* Two override objects with different keys, one of them with a key no default has.
CustomOverrides ==
  {[text |-> "My Brand", opacity |-> 700], [fontSize |-> 60, styleType |-> "custom"]}

PresetObjects(family) == {getPresetStyles(family)[n] : n \in DOMAIN getPresetStyles(family)}

WideOverrides(family) ==
  {EmptyObject} \cup AnchorOverrides \cup ToggleOverrides(family) \cup CustomOverrides
  \cup PresetObjects(family)

\* The first call may also be made with no override at all.
NarrowOverrides(c) == IF c = "a" THEN {EmptyObject} \cup CustomOverrides ELSE CustomOverrides

PresetNameInputs(family) == DOMAIN getPresetStyles(family) \cup {"nosuch"}

\* What the renderer reports with an 'error' event.
ErrorMessages == {"ffmpeg exited with code 1", "Cannot find ffmpeg"}

InputPath == "input"
OutputPath(c) == IF c = "a" THEN "out_a" ELSE "out_b"

(***************************************************************************)
(* State of the calls.                                                     *)
(***************************************************************************)
NoRequest == [family |-> "-", kind |-> "-", inputPath |-> "-", outputPath |-> "-",
              arg |-> Undefined, preset |-> "-"]
NoTerminal == [event |-> "none", message |-> "-"]
NoDownloader ==
  [constructed |-> FALSE, watermarkStyles |-> <<>>, asked |-> {},
   allPresets |-> EmptyObject, styles |-> <<>>,
   tempDir |-> {},
   download |-> [c \in Calls |->
                   [state |-> "idle", kind |-> "-", addWatermark |-> FALSE,
                    watermarkStyle |-> Undefined, stream |-> "-", styler |-> "-",
                    filepath |-> [dir |-> "-", file |-> "-"], n |-> 0,
                    downloaded |-> {}, rendered |-> {}, unlinked |-> {}, paths |-> <<>>,
                    result |-> [success |-> FALSE, error |-> "-"]]]]

Init ==
  /\ defaultStyle = ConstructedDefaults
  /\ pc = [c \in Calls |-> "idle"]
  /\ req = [c \in Calls |-> NoRequest]
  /\ customStyle = [c \in Calls |-> EmptyObject]
  /\ style = [c \in Calls |-> EmptyObject]
  /\ pipeline = [c \in Calls |-> <<>>]
  /\ runs = [c \in Calls |-> 0]
  /\ started = [c \in Calls |-> FALSE]
  /\ nProgress = [c \in Calls |-> 0]
  /\ terminal = [c \in Calls |-> NoTerminal]
  /\ settleLog = [c \in Calls |-> <<>>]
  /\ batch = [state |-> "idle", variations |-> <<>>, inputPath |-> "-", i |-> 0,
              results |-> <<>>, outcomes |-> <<>>]
  /\ previous = [c \in Calls |-> NoRequest]
  /\ downloader = NoDownloader

(***************************************************************************)
(* The promise and the handlers an apply call registers.                   *)
(***************************************************************************)
NoSettle == [how |-> "none", value |-> "-"]

\* .on('end', () => { ...; resolve(outputPath); })
EndHandlerInputPath(r) == [how |-> "resolved", value |-> r.inputPath]

EndHandler(r) == [how |-> "resolved", value |-> r.outputPath]

\* .on('error', (err) => { ...; reject(err); }) and .on('error', reject): the
\* promise is rejected with the renderer's error; .run() is not called again.
ErrorHandlerRetry(r, message) ==
  [settle |-> NoSettle, rerun |-> TRUE]

ErrorHandler(r, message) ==
  [settle |-> [how |-> "rejected", value |-> message], rerun |-> FALSE]

\* .on('start', ...) and .on('progress', ...) only log.
NotifyHandler(r) == NoSettle

\* resolve() and reject() of a promise: the first settlement stays.
SettledState(state, s) ==
  IF state = "pending" /\ s.how # "none" THEN s.how ELSE state

SettledLog(state, log, s) ==
  IF state = "pending" /\ s.how # "none" THEN Append(log, s) ELSE log

(***************************************************************************)
(* applyToVideo / applyToImage of every styler.                            *)
(***************************************************************************)
ApplyTo(c, family, kind, arg, presetName, inputPath, outputPath) ==
  /\ pc[c] = "idle"
  /\ LET m == SpreadStyle(defaultStyle[family], DefaultParameter(arg))
         throws == BuildThrows(family, kind, m.style)
     IN /\ defaultStyle' = [defaultStyle EXCEPT ![family] = m.defaultStyle]
        /\ customStyle' = [customStyle EXCEPT ![c] = m.customStyle]
        /\ style' = [style EXCEPT ![c] = m.style]
        /\ pipeline' = [pipeline EXCEPT
                          ![c] = IF throws THEN <<>> ELSE BuildFilter(family, kind, m.style)]
        /\ pc' = [pc EXCEPT ![c] = IF throws THEN "threw TypeError" ELSE "pending"]
        /\ runs' = [runs EXCEPT ![c] = IF throws THEN @ ELSE @ + 1]
  /\ req' = [req EXCEPT ![c] = [family |-> family, kind |-> kind, inputPath |-> inputPath,
                                outputPath |-> outputPath, arg |-> arg,
                                preset |-> presetName]]
  /\ UNCHANGED <<started, nProgress, terminal, settleLog>>

Apply(c, family, kind, arg, presetName) ==
  ApplyTo(c, family, kind, arg, presetName, InputPath, OutputPath(c))

applyToVideo(c, family, arg, presetName) == Apply(c, family, "video", arg, presetName)

applyToImage(c, family, arg, presetName) == Apply(c, family, "image", arg, presetName)

(***************************************************************************)
(* The renderer's events.                                                  *)
(***************************************************************************)
Rendering(c) == runs[c] > 0 /\ terminal[c].event = "none"

Notify(c) ==
  LET s == NotifyHandler(req[c])
  IN /\ pc' = [pc EXCEPT ![c] = SettledState(pc[c], s)]
     /\ settleLog' = [settleLog EXCEPT ![c] = SettledLog(pc[c], settleLog[c], s)]

OnStart(c) ==
  /\ Rendering(c)
  /\ ~started[c]
  /\ started' = [started EXCEPT ![c] = TRUE]
  /\ Notify(c)
  /\ UNCHANGED <<defaultStyle, req, customStyle, style, pipeline, runs, nProgress, terminal>>

OnProgress(c) ==
  /\ Rendering(c)
  /\ nProgress[c] < MaxProgress
  /\ nProgress' = [nProgress EXCEPT ![c] = @ + 1]
  /\ Notify(c)
  /\ UNCHANGED <<defaultStyle, req, customStyle, style, pipeline, runs, started, terminal>>

OnEnd(c) ==
  /\ Rendering(c)
  /\ terminal' = [terminal EXCEPT ![c] = [event |-> "end", message |-> "-"]]
  /\ LET s == EndHandler(req[c])
     IN /\ pc' = [pc EXCEPT ![c] = SettledState(pc[c], s)]
        /\ settleLog' = [settleLog EXCEPT ![c] = SettledLog(pc[c], settleLog[c], s)]
  /\ UNCHANGED <<defaultStyle, req, customStyle, style, pipeline, runs, started, nProgress>>

OnError(c, message) ==
  /\ Rendering(c)
  /\ LET h == ErrorHandler(req[c], message)
     IN /\ pc' = [pc EXCEPT ![c] = SettledState(pc[c], h.settle)]
        /\ settleLog' = [settleLog EXCEPT ![c] = SettledLog(pc[c], settleLog[c], h.settle)]
        /\ runs' = [runs EXCEPT ![c] = IF h.rerun THEN @ + 1 ELSE @]
        /\ terminal' = [terminal EXCEPT
                          ![c] = IF h.rerun THEN NoTerminal
                                 ELSE [event |-> "error", message |-> message]]
  /\ UNCHANGED <<defaultStyle, req, customStyle, style, pipeline, started, nProgress>>

RendererEvent(c) ==
  \/ OnStart(c)
  \/ OnProgress(c)
  \/ OnEnd(c)
  \/ \E message \in ErrorMessages : OnError(c, message)

(***************************************************************************)
(* createVariations of the basic styler.  The loop awaits one apply call   *)
(* after the other; the call in flight is call "a".                        *)
(***************************************************************************)
MaxVariations == 2   \* longest variations array passed

\* A file path, as path.extname splits it.
FilePath(name, ext) == [name |-> name, ext |-> ext]

_isVideoFile(filePath) ==
  LET toLowerCase(str) == IF str = "MOV" THEN "mov" ELSE str
  IN toLowerCase(filePath.ext) \in {"mp4", "avi", "mov", "mkv", "webm", "flv"}

\* path.join(outputDir, `watermarked_${i + 1}.${ext}`), i counted from 0; the
\* extension is _getFileExtension(inputPath), the input's without its dot.
VariationOutputPath(outputDir, i, inputPath) ==
  [dir |-> outputDir, name |-> "watermarked_", n |-> i + 1, ext |-> inputPath.ext]

\* The variations arrays passed: their elements are override objects, or a hole.
VariationLists ==
  LET VariationInputs == {Defined(o) : o \in CustomOverrides} \cup {Undefined}
  IN UNION {[1..n -> VariationInputs] : n \in 0..MaxVariations}

\* catch (error) { results.push({ success: false, error: error.message, variation }); }
CatchRethrows(message, variation) ==
  [rethrow |-> TRUE,
   entry |-> [success |-> FALSE, error |-> message, variation |-> variation]]

Catch(message, variation) ==
  [rethrow |-> FALSE,
   entry |-> [success |-> FALSE, error |-> message, variation |-> variation]]

CallIdle(c) ==
  /\ pc' = [pc EXCEPT ![c] = "idle"]
  /\ runs' = [runs EXCEPT ![c] = 0]
  /\ started' = [started EXCEPT ![c] = FALSE]
  /\ nProgress' = [nProgress EXCEPT ![c] = 0]
  /\ terminal' = [terminal EXCEPT ![c] = NoTerminal]
  /\ settleLog' = [settleLog EXCEPT ![c] = <<>>]

\* After the last iteration the loop ends and `return results` resolves.
LoopState(i, variations) == IF i > Len(variations) THEN "resolved" ELSE "looping"

createVariations(inputPath, variations) ==
  /\ batch.state = "idle"
  /\ pc["a"] = "idle"
  /\ batch' = [state |-> LoopState(1, variations), variations |-> variations,
               inputPath |-> inputPath, i |-> 1, results |-> <<>>, outcomes |-> <<>>]
  /\ UNCHANGED <<defaultStyle, pc, req, customStyle, style, pipeline, runs, started,
                 nProgress, terminal, settleLog>>

\* One iteration up to the await: the output path and the apply call.
VariationApply ==
  /\ batch.state = "looping"
  /\ ApplyTo("a", "basic",
             IF _isVideoFile(batch.inputPath) THEN "video" ELSE "image",
             batch.variations[batch.i], "-", batch.inputPath,
             VariationOutputPath("out", batch.i - 1, batch.inputPath))
  /\ batch' = [batch EXCEPT !.state = "awaiting"]

\* The awaited promise has settled: the rest of the iteration.
VariationSettled ==
  /\ batch.state = "awaiting"
  /\ pc["a"] \in {"resolved", "rejected", "threw TypeError"}
  /\ LET variation == batch.variations[batch.i]
         message == IF pc["a"] = "rejected" THEN settleLog["a"][1].value ELSE "TypeError"
         caught == Catch(message, variation)
         entry == IF pc["a"] = "resolved"
                  THEN [success |-> TRUE, path |-> req["a"].outputPath,
                        variation |-> variation]
                  ELSE caught.entry
     IN batch' = [batch EXCEPT
                    !.state = IF pc["a"] # "resolved" /\ caught.rethrow THEN "rejected"
                              ELSE LoopState(batch.i + 1, batch.variations),
                    !.i = @ + 1,
                    !.results = Append(@, entry),
                    !.outcomes = Append(@, terminal["a"])]
  /\ CallIdle("a")
  /\ UNCHANGED <<defaultStyle, req, customStyle, style, pipeline>>

(***************************************************************************)
(* Override values of the wrong type.                                      *)
(***************************************************************************)
\* An opacity and a font size that are no numbers; the template literal prints
\* them as they are.
MalformedOverrides(family) ==
  IF family = "basic"
  THEN {[opacity |-> "high"], [fontSize |-> "big"],
        [opacity |-> "high", fontSize |-> "big"]}
  ELSE {[opacity |-> "high"]}

(***************************************************************************)
(* Variant entry points: each spreads its own fixed fields after the       *)
(* caller's overrides and writes its own filter.                           *)
(***************************************************************************)
\* `${base}*(${c1}+${c2}*sin(t*${speed}))`; c1, c2 in hundredths, speed in tenths
Pulse(base, c1, c2, speed) ==
  [kind |-> "pulse", base |-> base, c1 |-> c1, c2 |-> c2, speed |-> speed]
\* `min(t*${rate},${target})`; rate in tenths per second
Ramp(rate, target) == [kind |-> "min_ramp", rate |-> rate, target |-> target]

Min(a, b) == IF a < b THEN a ELSE b

\* The fields each variant spreads after ...customStyle.
VariantFixedFields(variant) ==
  CASE variant = "applyPulsingNeon" -> [animationSpeed |-> 15, blinkEffect |-> FALSE]
    [] variant = "createLogoReveal" -> EmptyObject
    [] variant = "applyMatrixEffect" ->
         [enableRainbow |-> FALSE, primaryColor |-> "#00ff00",
          secondaryColor |-> "#00aa00", enableGlitch |-> TRUE, glitchIntensity |-> 5]
    [] variant = "applyQuantumFlux" ->
         [scanlineSpeed |-> 15, chromaticAberration |-> 5, enableRainbow |-> TRUE,
          prismEffect |-> TRUE]
    [] variant = "applyAgedFilm" ->
         [sepia |-> TRUE, noise |-> 25, vignette |-> TRUE, ageEffect |-> 400]
    [] variant = "createStampEffect" ->
         [borderStyle |-> "stamp", borderWidth |-> 8, primaryColor |-> "#8b0000",
          patina |-> "#696969", rotation |-> -5]
    [] variant = "applyFrostedGlass" ->
         [blurIntensity |-> 20, opacity |-> 200, gradientOverlay |-> TRUE]
    [] variant = "createBreathingGlass" -> [pulseEffect |-> TRUE]

VariantFamily(variant) ==
  CASE variant \in {"applyPulsingNeon", "createLogoReveal"} -> "neon"
    [] variant \in {"applyMatrixEffect", "applyQuantumFlux"} -> "holo"
    [] variant \in {"applyAgedFilm", "createStampEffect"} -> "vintage"
    [] variant \in {"applyFrostedGlass", "createBreathingGlass"} -> "glass"

\* { ...this.defaultStyle, ...customStyle, <fixed fields> }
SpreadVariantStyleIntoDefaults(defaults, overrides, fixed) ==
  [style |-> Merge(Merge(defaults, overrides), fixed),
   defaultStyle |-> Merge(Merge(defaults, overrides), fixed),
   customStyle |-> overrides]

SpreadVariantStyle(defaults, overrides, fixed) ==
  [style |-> Merge(Merge(defaults, overrides), fixed),
   defaultStyle |-> defaults,
   customStyle |-> overrides]

Glass_createBreathingGlassDeep(s) ==
  LET position == Glass_calculateGlassPosition(s)
      pulseOpacity == Pulse(s.opacity, 80, 40, 20)
      pulseSize == Pulse(s.fontSize, 95, 5, 15)
  IN <<[op |-> "drawbox", layer |-> "panel", x |-> position.x, y |-> position.y,
        w |-> position.width, h |-> position.height, color |-> s.glassColor,
        alpha |-> pulseOpacity, t |-> "fill"],
       DrawText("main", s.text, pulseSize, s.textColor, Const(s.textOpacity),
                position.textX, position.textY, s.font)>>

Glass_createBreathingGlass(s) ==
  LET position == Glass_calculateGlassPosition(s)
      pulseOpacity == Pulse(s.opacity, 80, 20, 20)
      pulseSize == Pulse(s.fontSize, 95, 5, 15)
  IN <<[op |-> "drawbox", layer |-> "panel", x |-> position.x, y |-> position.y,
        w |-> position.width, h |-> position.height, color |-> s.glassColor,
        alpha |-> pulseOpacity, t |-> "fill"],
       DrawText("main", s.text, pulseSize, s.textColor, Const(s.textOpacity),
                position.textX, position.textY, s.font)>>

VariantFilter(variant, s) ==
  LET Neon_applyPulsingNeon ==
        LET position == Neon_calculatePosition(s.position, s.offsetX, s.offsetY)
            pulseExpression == Pulse(s.opacity, 70, 30, s.animationSpeed * 3)
            glowExpression == Pulse(400, 50, 50, s.animationSpeed * 2)
        IN <<DrawText("outer glow", s.text, s.fontSize + s.glowIntensity * 3, s.glowColor,
                      glowExpression, position.x, position.y, s.font),
             DrawText("inner glow", s.text, s.fontSize + s.glowIntensity, s.glowColor,
                      glowExpression, position.x, position.y, s.font),
             Merge(DrawText("main", s.text, s.fontSize, s.primaryColor, pulseExpression,
                            position.x, position.y, s.font),
                   NeonStroke(s))>>

      Neon_createLogoReveal ==
        LET position == Neon_calculatePosition(s.position, s.offsetX, s.offsetY)
        IN <<DrawText("main", s.text, s.fontSize, s.primaryColor, Ramp(5, s.opacity),
                      position.x, position.y, s.font),
             DrawText("glow", s.text, s.fontSize + Min(20, s.glowIntensity * 2), s.glowColor,
                      Ramp(3, 400), position.x, position.y, s.font)>>

      Holo_applyMatrixEffect ==
        LET position == Holo_calculatePosition(s.position, s.offsetX, s.offsetY)
        IN <<DrawText("main", s.text, s.fontSize, s.primaryColor, AbsSin(s.opacity, 30, 0),
                      position.x, position.y, s.font),
             DrawText("stream", s.text, s.fontSize, s.secondaryColor,
                      \* `${opacity * 0.7}*abs(cos(t*2))`
                      [kind |-> "abs_cos", base |-> Scale(s.opacity, 7), speed |-> 20],
                      PlusPx(position.x, 2), PlusPx(position.y, 2), s.font),
             DrawText("stream", s.text, s.fontSize, s.primaryColor,
                      AbsSin(Scale(s.opacity, 5), 40, 0),
                      MinusPx(position.x, 1), MinusPx(position.y, 1), s.font)>>

      Holo_applyQuantumFlux ==
        LET position == Holo_calculatePosition(s.position, s.offsetX, s.offsetY)
        IN <<DrawText("main", s.text, s.fontSize, s.primaryColor, AbsSin(s.opacity, 20, 0),
                      position.x, position.y, s.font),
             DrawText("antimatter", s.text, s.fontSize, s.secondaryColor,
                      \* `${opacity}*abs(sin(t*2+PI))`
                      [kind |-> "abs_sin_plus_pi", base |-> s.opacity, speed |-> 20],
                      PlusPx(position.x, 3), position.y, s.font),
             DrawText("flux", s.text, s.fontSize + 4, s.tertiaryColor,
                      AbsSin(Scale(s.opacity, 3), 40, 0), position.x, position.y, s.font),
             DrawText("tunneling", s.text, s.fontSize, s.accentColor,
                      IfMod(30, 4, Scale(s.opacity, 6), 0),
                      MinusPx(position.x, 2), PlusPx(position.y, 1), s.font)>>

      Vintage_applyAgedFilm ==
        LET position == Vintage_calculatePosition(s.position, s.offsetX, s.offsetY)
        IN <<PrePass("colorchannelmixer", 0), PrePass("curves", 0),
             PrePass("noise", s.noise), PrePass("vignette", 3),
             DrawText("emboss", s.text, s.fontSize, s.shadowColor, Const(Scale(s.opacity, 6)),
                      PlusPx(position.x, s.shadowOffset), PlusPx(position.y, s.shadowOffset),
                      s.font),
             Merge(DrawText("main", s.text, s.fontSize, s.primaryColor, Const(s.opacity),
                            position.x, position.y, s.font),
                   [borderw |-> s.borderWidth, bordercolor |-> s.patina])>>

      Vintage_createStampEffect ==
        LET position == Vintage_calculatePosition(s.position, s.offsetX, s.offsetY)
        IN <<Merge(DrawText("circle", "circle", s.fontSize * 2, s.primaryColor, Const(300),
                            position.x, position.y, s.font),
                   [angleDegrees |-> s.rotation]),
             Merge(DrawText("main", s.text, s.fontSize, s.primaryColor, Const(s.opacity),
                            position.x, position.y, s.font),
                   [angleDegrees |-> s.rotation, borderw |-> 2, bordercolor |-> s.patina])>>

      Glass_applyFrostedGlass ==
        LET position == Glass_calculateGlassPosition(s)
        IN <<Stage("0:v", <<[op |-> "split", layer |-> "pass", n |-> 3]>>,
                   <<"main", "blur1", "blur2">>),
             Stage("blur1", <<[op |-> "crop", layer |-> "blur", w |-> position.width,
                               h |-> position.height, x |-> position.x, y |-> position.y],
                              [op |-> "gblur", layer |-> "blur", sigma |-> s.blurIntensity]>>,
                   <<"bg_blur">>),
             Stage("main",
                   <<[GlassPanel(s, position, "panel", 1, s.opacity) EXCEPT !.color = "white"]>>,
                   <<"glass_panel">>),
             Stage("glass_panel",
                   <<[GlassPanel(s, position, "highlight", 4, Scale(s.opacity, 6))
                        EXCEPT !.color = "white"]>>,
                   <<"glass_highlight">>),
             Stage("glass_highlight", Glass_createGlassText(s, position), <<"final">>)>>
  IN CASE variant = "applyPulsingNeon" -> Neon_applyPulsingNeon
       [] variant = "createLogoReveal" -> Neon_createLogoReveal
       [] variant = "applyMatrixEffect" -> Holo_applyMatrixEffect
       [] variant = "applyQuantumFlux" -> Holo_applyQuantumFlux
       [] variant = "applyAgedFilm" -> Vintage_applyAgedFilm
       [] variant = "createStampEffect" -> Vintage_createStampEffect
       [] variant = "applyFrostedGlass" -> Glass_applyFrostedGlass
       [] variant = "createBreathingGlass" -> Glass_createBreathingGlass(s)

\* A variant entry point: style, filter, then the renderer with an 'end' and an
\* 'error' handler.
ApplyVariant(c, variant, arg) ==
  /\ pc[c] = "idle"
  /\ LET family == VariantFamily(variant)
         m == SpreadVariantStyle(defaultStyle[family], DefaultParameter(arg),
                                 VariantFixedFields(variant))
     IN /\ defaultStyle' = [defaultStyle EXCEPT ![family] = m.defaultStyle]
        /\ customStyle' = [customStyle EXCEPT ![c] = m.customStyle]
        /\ style' = [style EXCEPT ![c] = m.style]
        /\ pipeline' = [pipeline EXCEPT ![c] = VariantFilter(variant, m.style)]
        /\ req' = [req EXCEPT ![c] = [family |-> family, kind |-> variant,
                                      inputPath |-> InputPath,
                                      outputPath |-> OutputPath(c), arg |-> arg,
                                      preset |-> "-"]]
  /\ pc' = [pc EXCEPT ![c] = "pending"]
  /\ runs' = [runs EXCEPT ![c] = @ + 1]
  /\ UNCHANGED <<started, nProgress, terminal, settleLog>>

\* The caller is done with a settled call and is about to make another one.
NextCall(c) ==
  /\ pc[c] \in {"resolved", "rejected"}
  /\ previous[c] = NoRequest
  /\ previous' = [previous EXCEPT ![c] = req[c]]
  /\ CallIdle(c)
  /\ UNCHANGED <<defaultStyle, req, customStyle, style, pipeline>>

\* What a caller may pass to an entry point, opacities outside 0..1 among it
\* (thousandths).
EntryPointOverrides(family) ==
  {EmptyObject} \cup ToggleOverrides(family) \cup CustomOverrides
  \cup {[opacity |-> 1500], [opacity |-> -200]}
  \cup (IF family = "neon"
        THEN {[text |-> t, opacity |-> 1000, blinkEffect |-> b] :
                t \in {"@1direction", "Fan@Home"}, b \in BOOLEAN}
        ELSE {})

(***************************************************************************)
(* What ffmpeg evaluates an opacity expression to.                         *)
(***************************************************************************)
Max(a, b) == IF a > b THEN a ELSE b

\* The least and the greatest value over t >= 0, sin and cos ranging over -1..1.
AlphaRange(e) ==
  CASE e.kind = "const" -> [lo |-> e.v, hi |-> e.v]
    [] e.kind \in {"abs_sin", "abs_cos", "abs_sin_plus_pi"} ->
         [lo |-> Min(0, e.base), hi |-> Max(0, e.base)]
    [] e.kind = "if_mod" -> [lo |-> Min(e.on, e.off), hi |-> Max(e.on, e.off)]
    [] e.kind = "pulse" ->
         [lo |-> Min((e.base * (e.c1 - e.c2)) \div 100, (e.base * (e.c1 + e.c2)) \div 100),
          hi |-> Max((e.base * (e.c1 - e.c2)) \div 100, (e.base * (e.c1 + e.c2)) \div 100)]
    [] e.kind = "min_ramp" -> [lo |-> Min(0, e.target), hi |-> e.target]

MaxT == 40   \* elapsed time sampled, in tenths of a second

\* min(t*rate, target) at t tenths of a second, in thousandths.
EvalRampUnclamped(e, t) == t * e.rate * 10

EvalRamp(e, t) == Min(t * e.rate * 10, e.target)

\* Every opacity of a filter: the alpha of each operation and of its border.
Alphas(p) ==
  {Flatten(p)[i].alpha : i \in {j \in 1..Len(Flatten(p)) : "alpha" \in DOMAIN Flatten(p)[j]}}
  \cup {Flatten(p)[i].borderalpha :
          i \in {j \in 1..Len(Flatten(p)) : "borderalpha" \in DOMAIN Flatten(p)[j]}}

(***************************************************************************)
(* TikTokDownloader: the style registry, the preset listings and the       *)
(* watermark step of a download.                                           *)
(***************************************************************************)
\* What readdirSync('./styles') may list: one module per styler, and a file
\* that is no module.
StylesDir ==
  <<FilePath("README", "md"), FilePath("basic", "js"), FilePath("filmvint", "js"),
    FilePath("glass", "js"), FilePath("holo", "js"), FilePath("neon", "js"),
    FilePath("vintage", "js")>>

\* The registry after loadWatermarkStyles: the names, in the order they were
\* added.  watermarkStyles[name] is the styler of that family.
loadWatermarkStyles(files) ==
  LET modules == SelectSeq(files, LAMBDA file : file.ext = "js")
  IN [i \in 1..Len(modules) |-> modules[i].name]

Registered(watermarkStyles) == {watermarkStyles[i] : i \in 1..Len(watermarkStyles)}

TikTokDownloader(files) ==
  /\ ~downloader.constructed
  /\ downloader' = [downloader EXCEPT !.constructed = TRUE,
                                      !.watermarkStyles = loadWatermarkStyles(files)]
  /\ UNCHANGED <<defaultStyle, pc, req, customStyle, style, pipeline, runs, started,
                 nProgress, terminal, settleLog>>

\* `${styleType}_${presetName}`
PresetNameOnly(styleType, presetName) == presetName

PresetKey(styleType, presetName) == styleType \o "_" \o presetName

\* The outer forEach: a later assignment to the same key replaces the earlier.
\* PresetEntries is what the inner forEach assigns for one styler.
RECURSIVE AllPresets(_)
AllPresets(watermarkStyles) ==
  LET PresetEntries(styleType) ==
        LET presets == getPresetStyles(styleType)
        IN [key \in {PresetKey(styleType, presetName) : presetName \in DOMAIN presets} |->
              LET presetName == CHOOSE n \in DOMAIN presets : PresetKey(styleType, n) = key
              IN Merge(presets[presetName], [styleType |-> styleType])]
  IN IF watermarkStyles = <<>>
     THEN EmptyObject
     ELSE Merge(AllPresets(SubSeq(watermarkStyles, 1, Len(watermarkStyles) - 1)),
                PresetEntries(watermarkStyles[Len(watermarkStyles)]))

TikTokDownloader_getPresetStyles ==
  /\ downloader.constructed
  /\ downloader' = [downloader EXCEPT !.asked = @ \cup {"getPresetStyles"},
                                      !.allPresets = AllPresets(downloader.watermarkStyles)]
  /\ UNCHANGED <<defaultStyle, pc, req, customStyle, style, pipeline, runs, started,
                 nProgress, terminal, settleLog>>

TikTokDownloader_getAvailableStyles ==
  /\ downloader.constructed
  /\ downloader' =
       [downloader EXCEPT
          !.asked = @ \cup {"getAvailableStyles"},
          !.styles = [i \in 1..Len(downloader.watermarkStyles) |->
                        [name |-> downloader.watermarkStyles[i],
                         presets |-> DOMAIN getPresetStyles(downloader.watermarkStyles[i])]]]
  /\ UNCHANGED <<defaultStyle, pc, req, customStyle, style, pipeline, runs, started,
                 nProgress, terminal, settleLog>>

\* this.watermarkStyles[styleType] || this.watermarkStyles['glitch'] || null.
\* watermarkStyles is a plain object: a name of Object.prototype reads as an
\* inherited member, which is no styler.
getStyler(watermarkStyles, styleType) ==
  IF styleType \in Registered(watermarkStyles) THEN styleType
  ELSE IF styleType \in ObjectPrototypeKeys THEN "inherited"
  ELSE IF "glitch" \in Registered(watermarkStyles) THEN "glitch"
  ELSE "null"

Failure(message) == [success |-> FALSE, error |-> message]

Downloaded(finalPath, addWatermark) ==
  [success |-> TRUE, path |-> finalPath, watermarked |-> addWatermark]

\* downloadVideo of caller c up to its first await of the styler: the fetch,
\* the download of the file, the styler lookup and the apply call.  `now` is
\* what Date.now() returns and `stream` what becomes of the download:
\*   "finish"          the writer emits 'finish';
\*   "writer error"    the writer emits 'error' and the awaited promise rejects;
\*   "response error"  response.data fails: pipe() neither ends nor fails the
\*                     writer, no listener is attached to response.data, and
\*                     the awaited promise never settles.
downloadVideo(c, result, quality, addWatermark, watermarkStyle, now, stream) ==
  /\ downloader.constructed
  /\ downloader.download[c].state = "idle"
  /\ LET videoUrl == IF quality = "hd" THEN result.video1 ELSE result.video2
         toUpperCase(str) == IF str = "hd" THEN "HD" ELSE IF str = "sd" THEN "SD" ELSE str
         filename == "tiktok_" \o now \o ".mp4"
         join(dir, file) == [dir |-> dir, file |-> file]
         filepath == join("./temp", filename)
         watermarkedPath == join("./temp", "watermarked_" \o filename)
         \* watermarkStyle.styleType || 'glitch'
         styleType == IF "styleType" \in DOMAIN watermarkStyle.obj
                      THEN watermarkStyle.obj.styleType ELSE "glitch"
         styler == getStyler(downloader.watermarkStyles, styleType)
         call(state, looked, returned) ==
           [downloader.download[c] EXCEPT
              !.state = state, !.kind = "video", !.addWatermark = addWatermark,
              !.watermarkStyle = watermarkStyle, !.styler = looked, !.result = returned]
         \* the call with nothing written to tempDir
         unwritten(returned) ==
           /\ downloader' = [downloader EXCEPT !.download[c] = call("returned", "-", returned)]
           /\ UNCHANGED <<defaultStyle, pc, req, customStyle, style, pipeline, runs,
                          started, nProgress, terminal, settleLog>>
         \* the call with filepath created by fs.createWriteStream
         written(state, looked, returned) ==
           [downloader EXCEPT
              !.tempDir = @ \cup {filepath},
              !.download[c] =
                 [call(state, looked, returned) EXCEPT
                    !.stream = stream, !.filepath = filepath,
                    !.downloaded = IF stream = "finish" THEN {filepath} ELSE {}]]
         return(looked, returned) ==
           /\ downloader' = written("returned", looked, returned)
           /\ UNCHANGED <<defaultStyle, pc, req, customStyle, style, pipeline, runs,
                          started, nProgress, terminal, settleLog>>
     IN IF result.status # "success"
        THEN unwritten(Failure("Failed to fetch TikTok data"))
        ELSE IF videoUrl = "undefined"
        THEN unwritten(Failure(toUpperCase(quality) \o " quality not available"))
        ELSE IF stream = "response error"
        THEN /\ downloader' = written("unsettled", "-", downloader.download[c].result)
             /\ UNCHANGED <<defaultStyle, pc, req, customStyle, style, pipeline, runs,
                            started, nProgress, terminal, settleLog>>
        ELSE IF stream = "writer error"
        THEN return("-", Failure("ENOSPC: no space left on device, write"))
        ELSE IF ~(addWatermark /\ watermarkStyle.defined)
        THEN return("-", Downloaded(filepath, addWatermark))
        ELSE IF styler = "null"
        THEN return(styler, Downloaded(filepath, addWatermark))
        ELSE IF styler = "inherited"
        THEN return(styler, Failure("styler.applyToVideo is not a function"))
        ELSE /\ ApplyTo(c, styler, "video", watermarkStyle, "-", filepath, watermarkedPath)
             /\ downloader' = written("awaiting", styler, downloader.download[c].result)

\* downloadImages of caller c up to its loop: the fetch and the check of the
\* image list.
downloadImages(c, result, quality, addWatermark, watermarkStyle) ==
  /\ downloader.constructed
  /\ downloader.download[c].state = "idle"
  /\ LET images == result.images
         call(state, n, returned) ==
           [downloader.download[c] EXCEPT
              !.state = state, !.kind = "images", !.addWatermark = addWatermark,
              !.watermarkStyle = watermarkStyle, !.n = n, !.result = returned]
     IN downloader' =
          [downloader EXCEPT
             !.download[c] =
                IF result.status # "success"
                THEN call("returned", 0, Failure("Failed to fetch TikTok data"))
                ELSE IF ~images.defined \/ Len(images.obj) = 0
                THEN call("returned", 0, Failure("No images found in this TikTok"))
                ELSE call("looping", Len(images.obj), downloader.download[c].result)]
  /\ UNCHANGED <<defaultStyle, pc, req, customStyle, style, pipeline, runs, started,
                 nProgress, terminal, settleLog>>

\* One iteration of the loop of downloadImages up to its await of the styler:
\* the download of image i, the styler lookup and the apply call; without a
\* styler to await, the push and the end of the loop.
DownloadImage(c, now, stream) ==
  /\ downloader.download[c].state = "looping"
  /\ LET download == downloader.download[c]
         i == Len(download.paths)   \* counted from 0
         filename == "tiktok_image_" \o now \o "_" \o SubSeq("123456789", i + 1, i + 1)
                     \o ".jpg"
         join(dir, file) == [dir |-> dir, file |-> file]
         filepath == join("./temp", filename)
         watermarkedPath == join("./temp", "watermarked_" \o filename)
         watermarkStyle == download.watermarkStyle
         styleType == IF "styleType" \in DOMAIN watermarkStyle.obj
                      THEN watermarkStyle.obj.styleType ELSE "glitch"
         styler == getStyler(downloader.watermarkStyles, styleType)
         written(state, looked, pushed, returned) ==
           [downloader EXCEPT
              !.tempDir = @ \cup {filepath},
              !.download[c] =
                 [download EXCEPT
                    !.state = state, !.stream = stream, !.styler = looked,
                    !.filepath = filepath,
                    !.downloaded = IF stream = "finish" THEN @ \cup {filepath} ELSE @,
                    !.paths = @ \o pushed, !.result = returned]]
         \* downloadedImages.push(finalPath), then the next iteration or the return
         push(looked, finalPath) ==
           IF i + 1 < download.n
           THEN written("looping", looked, <<finalPath>>, download.result)
           ELSE written("returned", looked, <<finalPath>>,
                        [success |-> TRUE, paths |-> Append(download.paths, finalPath),
                         watermarked |-> download.addWatermark])
     IN IF stream = "finish" /\ download.addWatermark /\ watermarkStyle.defined
           /\ styler \notin {"null", "inherited"}
        THEN /\ ApplyTo(c, styler, "image", watermarkStyle, "-", filepath, watermarkedPath)
             /\ downloader' = written("awaiting", styler, <<>>, download.result)
        ELSE /\ downloader' =
                  IF stream = "response error"
                  THEN written("unsettled", "-", <<>>, download.result)
                  ELSE IF stream = "writer error"
                  THEN written("returned", "-", <<>>,
                               Failure("ENOSPC: no space left on device, write"))
                  ELSE IF ~(download.addWatermark /\ watermarkStyle.defined)
                  THEN push("-", filepath)
                  ELSE IF styler = "null"
                  THEN push(styler, filepath)
                  ELSE written("returned", styler, <<>>,
                               Failure("styler.applyToImage is not a function"))
             /\ UNCHANGED <<defaultStyle, pc, req, customStyle, style, pipeline, runs,
                            started, nProgress, terminal, settleLog>>

\* The styler's promise has settled (or the call threw): the rest of
\* downloadVideo, or of the iteration of downloadImages.  Only the resolved
\* promise reaches fs.unlinkSync, which throws when the file is not there.
DownloadSettledUnlinksAlways(c) ==
  /\ downloader.download[c].state = "awaiting"
  /\ pc[c] \in {"resolved", "rejected", "threw TypeError"}
  /\ LET download == downloader.download[c]
         resolved == pc[c] = "resolved"
         unlinks == download.filepath \in downloader.tempDir
         finalPath == req[c].outputPath
         paths == Append(download.paths, finalPath)
         more == download.kind = "images" /\ resolved /\ unlinks /\ Len(paths) < download.n
     IN /\ downloader' =
             [downloader EXCEPT
                !.tempDir = (IF resolved THEN @ \cup {finalPath} ELSE @) \ {download.filepath},
                !.download[c] =
                   [download EXCEPT
                      !.state = IF more THEN "looping" ELSE "returned",
                      !.rendered = IF resolved THEN @ \cup {finalPath} ELSE @,
                      !.unlinked = IF unlinks THEN @ \cup {download.filepath} ELSE @,
                      !.paths = IF resolved /\ unlinks THEN paths ELSE @,
                      !.result =
                         IF more THEN @
                         ELSE IF resolved /\ ~unlinks
                         THEN Failure("ENOENT: no such file or directory, unlink")
                         ELSE IF resolved /\ download.kind = "video"
                         THEN Downloaded(finalPath, download.addWatermark)
                         ELSE IF resolved
                         THEN [success |-> TRUE, paths |-> paths,
                               watermarked |-> download.addWatermark]
                         ELSE IF pc[c] = "rejected" THEN Failure(settleLog[c][1].value)
                         ELSE Failure("TypeError")]]
        /\ IF more
           THEN CallIdle(c) /\ UNCHANGED <<defaultStyle, req, customStyle, style, pipeline>>
           ELSE UNCHANGED <<defaultStyle, pc, req, customStyle, style, pipeline, runs,
                            started, nProgress, terminal, settleLog>>

DownloadSettled(c) ==
  /\ downloader.download[c].state = "awaiting"
  /\ pc[c] \in {"resolved", "rejected", "threw TypeError"}
  /\ LET download == downloader.download[c]
         resolved == pc[c] = "resolved"
         unlinks == resolved /\ download.filepath \in downloader.tempDir
         finalPath == req[c].outputPath
         paths == Append(download.paths, finalPath)
         more == download.kind = "images" /\ unlinks /\ Len(paths) < download.n
     IN /\ downloader' =
             [downloader EXCEPT
                !.tempDir = IF resolved THEN (@ \cup {finalPath}) \ {download.filepath} ELSE @,
                !.download[c] =
                   [download EXCEPT
                      !.state = IF more THEN "looping" ELSE "returned",
                      !.rendered = IF resolved THEN @ \cup {finalPath} ELSE @,
                      !.unlinked = IF unlinks THEN @ \cup {download.filepath} ELSE @,
                      !.paths = IF unlinks THEN paths ELSE @,
                      !.result =
                         IF more THEN @
                         ELSE IF resolved /\ ~unlinks
                         THEN Failure("ENOENT: no such file or directory, unlink")
                         ELSE IF resolved /\ download.kind = "video"
                         THEN Downloaded(finalPath, download.addWatermark)
                         ELSE IF resolved
                         THEN [success |-> TRUE, paths |-> paths,
                               watermarked |-> download.addWatermark]
                         ELSE IF pc[c] = "rejected" THEN Failure(settleLog[c][1].value)
                         ELSE Failure("TypeError")]]
        /\ IF more
           THEN CallIdle(c) /\ UNCHANGED <<defaultStyle, req, customStyle, style, pipeline>>
           ELSE UNCHANGED <<defaultStyle, pc, req, customStyle, style, pipeline, runs,
                            started, nProgress, terminal, settleLog>>

(***************************************************************************)
(* Specifications.                                                         *)
(*   Spec:      two calls in flight at once, few override objects.         *)
(*   SpecBuild: one call, every override object of WideOverrides.          *)
(***************************************************************************)
Next ==
  /\ \/ \E c \in Calls, f \in Families : \E o \in NarrowOverrides(c) :
          applyToVideo(c, f, Defined(o), "-")
     \/ \E c \in Calls, f \in Families : \E o \in NarrowOverrides(c) :
          applyToImage(c, f, Defined(o), "-")
     \/ \E c \in Calls : RendererEvent(c)
  /\ UNCHANGED <<batch, previous, downloader>>

Spec == Init /\ [][Next]_vars

NextBuild ==
  /\ \/ \E f \in Families : \E o \in WideOverrides(f) : applyToVideo("a", f, Defined(o), "-")
     \/ \E f \in Families : \E o \in WideOverrides(f) : applyToImage("a", f, Defined(o), "-")
     \/ \E f \in Families : \E n \in PresetNameInputs(f) :
          applyToVideo("a", f, PresetArgument(f, n), n)
     \/ \E f \in Families : \E n \in PresetNameInputs(f) :
          applyToImage("a", f, PresetArgument(f, n), n)
     \/ RendererEvent("a")
  /\ UNCHANGED <<batch, previous, downloader>>

SpecBuild == Init /\ [][NextBuild]_vars

NextVariations ==
  /\ \/ \E inputPath \in {FilePath("input", "mp4"), FilePath("clip", "MOV"),
                           FilePath("photo", "jpg")},
             variations \in VariationLists :
          createVariations(inputPath, variations)
     \/ VariationApply
     \/ RendererEvent("a") /\ UNCHANGED batch
     \/ VariationSettled
  /\ UNCHANGED <<previous, downloader>>

SpecVariations == Init /\ [][NextVariations]_vars

NextMalformed ==
  /\ \/ \E c \in Calls, f \in {"basic", "neon"} : \E o \in MalformedOverrides(f) :
          applyToVideo(c, f, Defined(o), "-")
     \/ \E c \in Calls, f \in {"basic", "neon"} : \E o \in MalformedOverrides(f) :
          applyToImage(c, f, Defined(o), "-")
     \/ \E c \in Calls : RendererEvent(c)
  /\ UNCHANGED <<batch, previous, downloader>>

SpecMalformed == Init /\ [][NextMalformed]_vars

NextEntryPoints ==
  /\ \/ \E f \in Families : \E o \in EntryPointOverrides(f) :
          applyToVideo("a", f, Defined(o), "-")
     \/ \E f \in Families : \E o \in EntryPointOverrides(f) :
          applyToImage("a", f, Defined(o), "-")
     \/ \E v \in {"applyPulsingNeon", "createLogoReveal", "applyMatrixEffect",
                   "applyQuantumFlux", "applyAgedFilm", "createStampEffect",
                   "applyFrostedGlass", "createBreathingGlass"} : \E o \in EntryPointOverrides(VariantFamily(v)) :
          ApplyVariant("a", v, Defined(o))
     \/ RendererEvent("a")
  /\ UNCHANGED <<batch, previous, downloader>>

SpecEntryPoints == Init /\ [][NextEntryPoints]_vars

\* The entry points that emit pulse expressions, called again and again by two
\* callers on the same stylers.
NextRepeat ==
  \/ /\ \E c \in Calls, v \in {"applyPulsingNeon", "createBreathingGlass"} :
          \E o \in NarrowOverrides("a") : ApplyVariant(c, v, Defined(o))
     /\ UNCHANGED <<batch, previous, downloader>>
  \/ /\ \E c \in Calls : OnEnd(c)
     /\ UNCHANGED <<batch, previous, downloader>>
  \/ /\ \E c \in Calls, message \in ErrorMessages : OnError(c, message)
     /\ UNCHANGED <<batch, previous, downloader>>
  \/ /\ \E c \in Calls : NextCall(c)
     /\ UNCHANGED <<batch, downloader>>

SpecRepeat == Init /\ [][NextRepeat]_vars

\* The downloader constructed over any content of the styles directory, its
\* two listings, and one caller's download of a video or of a slide show.
NextDownloader ==
  /\ \/ \E present \in SUBSET {StylesDir[i] : i \in 1..Len(StylesDir)} :
          TikTokDownloader(SelectSeq(StylesDir, LAMBDA file : file \in present))
     \/ TikTokDownloader_getPresetStyles
     \/ TikTokDownloader_getAvailableStyles
     \/ \E result \in {[status |-> "error", video1 |-> "undefined", video2 |-> "undefined"],
                        [status |-> "success", video1 |-> "https://v/hd",
                         video2 |-> "undefined"],
                        [status |-> "success", video1 |-> "https://v/hd",
                         video2 |-> "https://v/sd"]},
           quality \in {"hd", "sd"}, addWatermark \in BOOLEAN,
           watermarkStyle \in
             {Undefined} \cup
             {Defined(o) : o \in {[text |-> "My Brand"],
                                  [styleType |-> "neon", text |-> "My Brand"],
                                  [styleType |-> "glass", shimmerEffect |-> TRUE],
                                  [styleType |-> "nosuch", text |-> "My Brand"],
                                  [styleType |-> "constructor", text |-> "My Brand"]}},
           stream \in {"finish", "writer error", "response error"} :
          downloadVideo("a", result, quality, addWatermark, watermarkStyle,
                        "1762214400000", stream)
     \/ \E result \in {[status |-> "error", images |-> Undefined],
                        [status |-> "success", images |-> Undefined],
                        [status |-> "success", images |-> Defined(<<>>)],
                        [status |-> "success",
                         images |-> Defined(<<"https://i/1", "https://i/2">>)]},
           addWatermark \in BOOLEAN,
           watermarkStyle \in
             {Undefined} \cup
             {Defined(o) : o \in {[styleType |-> "neon", text |-> "My Brand"],
                                  [styleType |-> "nosuch", text |-> "My Brand"],
                                  [styleType |-> "constructor", text |-> "My Brand"]}} :
          downloadImages("a", result, "hd", addWatermark, watermarkStyle)
     \/ \E stream \in {"finish", "writer error", "response error"} :
          DownloadImage("a", "1762214400000", stream)
     \/ RendererEvent("a") /\ UNCHANGED downloader
     \/ DownloadSettled("a")
  /\ UNCHANGED <<batch, previous>>

SpecDownloader == Init /\ [][NextDownloader]_vars

\* Two callers downloading videos at once on one downloader with every family
\* registered; the clock may give both the same millisecond.
NextConcurrentDownloads ==
  /\ \/ TikTokDownloader(StylesDir)
     \/ \E c \in Calls, addWatermark \in BOOLEAN,
           now \in {"1762214400000", "1762214400001"} :
          downloadVideo(c, [status |-> "success", video1 |-> "https://v/hd",
                            video2 |-> "https://v/sd"],
                        "hd", addWatermark,
                        Defined([styleType |-> "neon", text |-> "My Brand"]), now, "finish")
     \/ \E c \in Calls : RendererEvent(c) /\ UNCHANGED downloader
     \/ \E c \in Calls : DownloadSettled(c)
  /\ UNCHANGED <<batch, previous>>

SpecConcurrentDownloads == Init /\ [][NextConcurrentDownloads]_vars

(***************************************************************************)
(* Properties.                                                             *)
(***************************************************************************)
Called(c) == pc[c] # "idle"
\* The filter was built and handed to the renderer.
Applied(c) == pc[c] \in {"pending", "resolved", "rejected"}

\* C1: in every apply call the style record the filter is built from has, for
\* every key of the override object, the override's value, and for every other
\* key the value of the family's defaultStyle.
C1_StyleIsDefaultsOverlaidByOverrides ==
  \A c \in Calls :
    Called(c) =>
      LET O == DefaultParameter(req[c].arg)
          D == defaultStyle[req[c].family]
      IN /\ DOMAIN style[c] = (DOMAIN D) \cup (DOMAIN O)
         /\ \A k \in DOMAIN O : style[c][k] = O[k]
         /\ \A k \in (DOMAIN D) \ (DOMAIN O) : style[c][k] = D[k]
         /\ Applied(c) => pipeline[c] = BuildFilter(req[c].family, req[c].kind, style[c])

\* An override that replaces a default and adds a key no default has was applied.
C1_Witness ==
  /\ Applied("a")
  /\ req["a"].family = "neon"
  /\ "styleType" \in DOMAIN style["a"]
  /\ style["a"].fontSize = 60
  /\ style["a"].text = "NEON"

(***************************************************************************)
(* The documented position formulas, as the specification states them.     *)
(***************************************************************************)
DocumentedAnchorDefault(family) ==
  CASE family = "basic" -> "bottom-right"
    [] family = "neon" -> "top-right"
    [] family = "holo" -> "center"
    [] family \in {"vintage", "filmvint"} -> "bottom-center"
    [] family = "glass" -> "center"

\* width and height stand for tw and th; for the glass panel, for its estimated size
DocumentedFormula(anchor, ox, oy, right, bottom, cx, cy) ==
  CASE anchor = "top-left" -> [x |-> Px(ox), y |-> Px(oy)]
    [] anchor = "top-right" -> [x |-> right, y |-> Px(oy)]
    [] anchor = "bottom-left" -> [x |-> Px(ox), y |-> bottom]
    [] anchor = "bottom-right" -> [x |-> right, y |-> bottom]
    [] anchor = "center" -> [x |-> cx, y |-> cy]
    [] anchor = "top-center" -> [x |-> cx, y |-> Px(oy)]
    [] anchor = "bottom-center" -> [x |-> cx, y |-> bottom]

\* The position the family's resolver returns for a style.
ResolvedPosition(family, s) ==
  CASE family = "basic" -> Basic_calculatePosition(s.position, s.offsetX, s.offsetY)
    [] family = "neon" -> Neon_calculatePosition(s.position, s.offsetX, s.offsetY)
    [] family = "holo" -> Holo_calculatePosition(s.position, s.offsetX, s.offsetY)
    [] family = "vintage" -> Vintage_calculatePosition(s.position, s.offsetX, s.offsetY)
    [] family = "filmvint" -> FilmVint_calculatePosition(s.position, s.offsetX, s.offsetY)
    [] family = "glass" ->
         [x |-> Glass_calculateGlassPosition(s).x, y |-> Glass_calculateGlassPosition(s).y]

\* C2: for each of the seven anchors the resolver returns the documented
\* formula, and for any other anchor string the formula of the family's default
\* anchor.  (The glass resolver is held to the same formulas over its panel's
\* width and height.)  Stated as claimed; an anchor string that names a member
\* of Object.prototype refutes it.
C2_ResolverReturnsDocumentedFormula ==
  \A c \in Calls :
    Called(c) =>
      LET f == req[c].family
          s == style[c]
          anchor == IF s.position \in Anchors THEN s.position
                    ELSE DocumentedAnchorDefault(f)
          g == Glass_calculateGlassPosition(s)
          expected ==
            IF f = "glass"
            THEN DocumentedFormula(anchor, s.offsetX, s.offsetY,
                                   PanelRightOf(g.width, s.offsetX),
                                   PanelBottomOf(g.height, s.offsetY),
                                   PanelCenterX(g.width), PanelCenterY(g.height))
            ELSE DocumentedFormula(anchor, s.offsetX, s.offsetY, RightOf(s.offsetX),
                                   BottomOf(s.offsetY), CenterX, CenterY)
      IN ResolvedPosition(f, s) = expected

\* The layers the sources introduce as the main text: "Main text", and the
\* holographic styler's "Main holographic text with prismatic effect".
MainLayers == {"main", "prism"}

\* C3: in every filter the main text is the last text-drawing operation: no
\* other text-drawing operation follows it.  Stated as claimed.
C3_MainTextIsLastTextOperation ==
  \A c \in Calls :
    Applied(c) =>
      LET t == TextOps(pipeline[c])
      IN \A i \in 1..Len(t) :
           t[i].layer \in MainLayers =>
             \A j \in (i + 1)..Len(t) : t[j].layer \in MainLayers

\* C4: every filter handed to the renderer holds a main text operation, and is
\* never empty, whatever toggles are disabled.  Stated as claimed.
C4_MainTextAlwaysPresent ==
  \A c \in Calls :
    Applied(c) =>
      /\ Len(pipeline[c]) > 0
      /\ \E i \in 1..Len(TextOps(pipeline[c])) :
           TextOps(pipeline[c])[i].layer \in MainLayers

NeonCall(c) ==
  Applied(c) /\ req[c].family = "neon" /\ req[c].kind \in {"video", "image"}

\* The text operations drawn before the main text, in draw order.
BeforeMain(p) ==
  LET t == TextOps(p)
      m == CHOOSE i \in 1..Len(t) : t[i].layer = "main"
  IN SubSeq(t, 1, m - 1)

MainText(p) ==
  LET t == TextOps(p) IN t[CHOOSE i \in 1..Len(t) : t[i].layer = "main"]

GlowDuplicates(p) ==
  /\ Len(BeforeMain(p)) >= 2
  /\ \A i \in 1..Len(BeforeMain(p)) :
       /\ BeforeMain(p)[i].text = MainText(p).text
       /\ BeforeMain(p)[i].alpha.kind = "const"

C6_NeonIsThreeGlowLayersThenMain ==
  \A c \in Calls :
    NeonCall(c) =>
      LET p == pipeline[c]
          F == style[c].fontSize
          G == style[c].glowIntensity
      IN /\ Len(p) = 4
         /\ \A i \in 1..4 : p[i].op = "drawtext"
         /\ [i \in 1..4 |-> p[i].fontsize] = <<F + 2 * G, F + G, F + 2, F>>
         /\ \A i \in 1..3 :
              /\ p[i].layer \in {"base glow", "medium glow", "inner glow"}
              /\ p[i].fontcolor = style[c].glowColor
         /\ p[4].layer = "main"
         /\ p[4].fontcolor = style[c].primaryColor

\* F = 52, G = 8 with blinkEffect on: 68, 60, 54, then 52.
C6_Witness ==
  /\ NeonCall("a")
  /\ req["a"].kind = "video"
  /\ style["a"].blinkEffect
  /\ ~style["a"].enableDoubleStroke
  /\ [i \in 1..4 |-> pipeline["a"][i].fontsize] = <<68, 60, 54, 52>>
  /\ pipeline["a"][4].alpha.kind = "if_mod"

\* C7: an apply call made with a preset name the family's catalog does not hold
\* raises PresetNotFound and never dispatches the renderer.  Stated as claimed.
C7_UnknownPresetRaisesBeforeDispatch ==
  \A c \in Calls :
    (Called(c) /\ req[c].preset # "-"
       /\ req[c].preset \notin DOMAIN getPresetStyles(req[c].family)) =>
      /\ runs[c] = 0
      /\ pc[c] = "threw PresetNotFound"

\* The filter the call builds when it is the only call made on a freshly
\* constructed styler.
AloneFilter(c) ==
  BuildFilter(req[c].family, req[c].kind,
              Merge(ConstructedDefaults[req[c].family], DefaultParameter(req[c].arg)))

\* C8: with two apply calls in flight on the same stylers, under every
\* interleaving of their build steps and renderer callbacks, each call's filter
\* is the filter it builds when run alone, every styler's defaultStyle is as
\* constructed and each caller's override object is as it was passed.
C8_ConcurrentCallsAreIndependent ==
  /\ defaultStyle = ConstructedDefaults
  /\ \A c \in Calls :
       Applied(c) =>
         /\ pipeline[c] = AloneFilter(c)
         /\ customStyle[c] = DefaultParameter(req[c].arg)

\* Both calls are applyToVideo on the neon styler with different overrides; the
\* second was issued and has finished while the first is still rendering.
C8_Witness ==
  /\ req["a"].family = "neon" /\ req["b"].family = "neon"
  /\ req["a"].kind = "video" /\ req["b"].kind = "video"
  /\ customStyle["a"] = [text |-> "My Brand", opacity |-> 700]
  /\ customStyle["b"] = [fontSize |-> 60, styleType |-> "custom"]
  /\ pc["a"] = "pending" /\ started["a"] /\ nProgress["a"] = MaxProgress
  /\ pc["b"] = "resolved"
  /\ pipeline["a"] # pipeline["b"]
  /\ pipeline["a"][4].text = "My Brand" /\ pipeline["b"][4].text # "My Brand"

\* C9: the promise of an apply call settles at most once and only on the
\* renderer's terminal event: it resolves with the output path on 'end' and
\* rejects with the renderer's error on 'error'; before the terminal event,
\* whatever start and progress notifications were delivered, it is unsettled.
C9_PromiseSettlesOnceOnTerminalEvent ==
  \A c \in Calls :
    /\ Len(settleLog[c]) <= 1
    /\ terminal[c].event = "none" =>
         /\ settleLog[c] = <<>>
         /\ pc[c] \notin {"resolved", "rejected"}
    /\ terminal[c].event = "end" =>
         /\ pc[c] = "resolved"
         /\ settleLog[c] = <<[how |-> "resolved", value |-> req[c].outputPath]>>
    /\ terminal[c].event = "error" =>
         /\ pc[c] = "rejected"
         /\ settleLog[c] = <<[how |-> "rejected", value |-> terminal[c].message]>>

\* One call resolved with its output path after start and progress were
\* delivered; the other rejected with the renderer's message.
C9_Witness ==
  /\ started["a"] /\ nProgress["a"] = MaxProgress
  /\ settleLog["a"] = <<[how |-> "resolved", value |-> OutputPath("a")]>>
  /\ req["b"].kind = "image"
  /\ \E m \in ErrorMessages : settleLog["b"] = <<[how |-> "rejected", value |-> m]>>

\* C10: an apply call that reaches the renderer runs it once; once the renderer
\* has reported an error the call is rejected and the renderer is not run
\* again for it.
C10_RendererRunOnceNoRetry ==
  /\ \A c \in Calls :
       /\ runs[c] = IF Applied(c) THEN 1 ELSE 0
       /\ terminal[c].event = "error" => pc[c] = "rejected" /\ runs[c] = 1

\* The renderer failed for a holographic video call, which is rejected.
C10_Witness ==
  /\ req["a"].family = "holo" /\ req["a"].kind = "video"
  /\ terminal["a"].event = "error"
  /\ pc["a"] = "rejected"
  /\ runs["a"] = 1

\* C11: createVariations never rejects; its results are in the order of the
\* variations array, entry i being { success: true, path:
\* <outputDir>/watermarked_(i+1).<ext>, variation } when the renderer ended
\* for variation i and { success: false, error, variation } with the renderer's
\* message when it failed; once resolved there is one entry per variation,
\* each of which was handed to the renderer whatever happened before it.
C11_VariationsIsolateFailures ==
  /\ batch.state # "rejected"
  /\ Len(batch.results) = Len(batch.outcomes)
  /\ batch.state \in {"looping", "awaiting"} => Len(batch.results) = batch.i - 1
  /\ batch.state = "resolved" => Len(batch.results) = Len(batch.variations)
  /\ \A k \in 1..Len(batch.results) :
       /\ batch.results[k].variation = batch.variations[k]
       /\ batch.outcomes[k].event \in {"end", "error"}
       /\ batch.outcomes[k].event = "end" =>
            batch.results[k] =
              [success |-> TRUE,
               path |-> [dir |-> "out", name |-> "watermarked_", n |-> k,
                         ext |-> batch.inputPath.ext],
               variation |-> batch.variations[k]]
       /\ batch.outcomes[k].event = "error" =>
            batch.results[k] =
              [success |-> FALSE, error |-> batch.outcomes[k].message,
               variation |-> batch.variations[k]]

\* Two variations of a video: the first failed, the second was rendered.
C11_Witness ==
  /\ batch.state = "resolved"
  /\ batch.inputPath = FilePath("clip", "MOV")
  /\ Len(batch.variations) = 2
  /\ ~batch.results[1].success
  /\ batch.results[2].success
  /\ batch.results[2].path.n = 2 /\ batch.results[2].path.ext = "MOV"

\* C12: an apply call whose override object holds a non-numeric opacity or font
\* size fails with InvalidConfig before the renderer is run.
\* Stated as claimed.
C12_MalformedOverrideFailsBeforeRender ==
  \A c \in Calls :
    (Called(c) /\ customStyle[c] \in MalformedOverrides(req[c].family)) =>
      /\ pc[c] = "threw InvalidConfig"
      /\ runs[c] = 0

\* C13: in every filter handed to the renderer, every opacity value or
\* expression stays within 0..1 for every t >= 0, whatever style the merge
\* produced.  Stated as claimed.
C13_OpacityStaysInUnitRange ==
  \A c \in Calls :
    Applied(c) =>
      \A e \in Alphas(pipeline[c]) :
        AlphaRange(e).lo >= 0 /\ AlphaRange(e).hi <= 1000

VariantCall(c, variant) == Applied(c) /\ req[c].kind = variant

\* The pulse expressions of a filter: opacities, and the breathing font size.
Pulses(c) ==
  {e \in Alphas(pipeline[c]) : e.kind = "pulse"}
  \cup (IF req[c].kind = "createBreathingGlass" THEN {pipeline[c][2].fontsize} ELSE {})

\* C14: every pulse expression emitted is base*(c1 + c2*sin(...)) with
\* c1 + c2 <= 1 and c1 - c2 >= 0, so its value stays between 0 and base for
\* every t; the neon pulsing text uses 0.7/0.3, the neon pulsing glow 0.5/0.5
\* and the breathing glass panel 0.8/0.2.
C14_PulseStaysWithinBase ==
  \A c \in Calls :
    Applied(c) =>
      /\ \A e \in Pulses(c) :
           /\ e.c1 + e.c2 <= 100
           /\ e.c1 - e.c2 >= 0
           /\ AlphaRange(e).lo >= Min(0, e.base)
           /\ AlphaRange(e).hi <= Max(0, e.base)
      /\ VariantCall(c, "applyPulsingNeon") =>
           /\ \A i \in 1..2 :
                /\ pipeline[c][i].alpha.kind = "pulse"
                /\ pipeline[c][i].alpha.base = 400
                /\ pipeline[c][i].alpha.c1 = 50 /\ pipeline[c][i].alpha.c2 = 50
           /\ pipeline[c][3].alpha.kind = "pulse"
           /\ pipeline[c][3].alpha.base = style[c].opacity
           /\ pipeline[c][3].alpha.c1 = 70 /\ pipeline[c][3].alpha.c2 = 30
      /\ VariantCall(c, "createBreathingGlass") =>
           /\ pipeline[c][1].alpha.kind = "pulse"
           /\ pipeline[c][1].alpha.base = style[c].opacity
           /\ pipeline[c][1].alpha.c1 = 80 /\ pipeline[c][1].alpha.c2 = 20

\* The breathing glass panel with the default opacity 0.15: between 0.09 and 0.15.
C14_Witness ==
  /\ VariantCall("a", "createBreathingGlass")
  /\ pipeline["a"][1].alpha = Pulse(150, 80, 20, 20)
  /\ AlphaRange(pipeline["a"][1].alpha) = [lo |-> 90, hi |-> 150]

\* C15: the opacities createLogoReveal emits are min(t*0.5, opacity) for the
\* main text and min(t*0.3, 0.4) for the glow; each is non-decreasing in t,
\* never exceeds its target and equals it for every t >= target/rate.
C15_RevealIsMonotoneAndClamped ==
  LET RampIsClamped(e) ==
        \A t \in 0..MaxT :
          /\ EvalRamp(e, t) <= EvalRamp(e, t + 1)
          /\ EvalRamp(e, t) <= e.target
          /\ t * e.rate * 10 >= e.target => EvalRamp(e, t) = e.target
  IN \A c \in Calls :
       VariantCall(c, "createLogoReveal") =>
         /\ pipeline[c][1].alpha = Ramp(5, style[c].opacity)
         /\ pipeline[c][2].alpha = Ramp(3, 400)
         /\ RampIsClamped(pipeline[c][1].alpha)
         /\ RampIsClamped(pipeline[c][2].alpha)

\* Opacity 0.7: 0.35 after 0.7 s, 0.7 from 1.4 s on; the glow reaches 0.4 after 1.4 s.
C15_Witness ==
  /\ VariantCall("a", "createLogoReveal")
  /\ style["a"].opacity = 700
  /\ EvalRamp(pipeline["a"][1].alpha, 7) = 350
  /\ EvalRamp(pipeline["a"][1].alpha, 14) = 700
  /\ EvalRamp(pipeline["a"][1].alpha, MaxT) = 700
  /\ EvalRamp(pipeline["a"][2].alpha, 13) = 390
  /\ EvalRamp(pipeline["a"][2].alpha, 14) = 400

\* C16: the filter a pulse entry point builds, and the pulse expressions in it,
\* depend on the style parameters only: two calls with the same parameters
\* give the same filter, whichever calls were made before or in between.
C16_PulseBuildIsDeterministic ==
  /\ \A c \in Calls :
       Applied(c) =>
         pipeline[c] =
           VariantFilter(req[c].kind,
                         Merge(Merge(ConstructedDefaults[req[c].family],
                                     DefaultParameter(req[c].arg)),
                               VariantFixedFields(req[c].kind)))
  /\ \A c, d \in Calls :
       (Applied(c) /\ Applied(d) /\ req[c].kind = req[d].kind
          /\ DefaultParameter(req[c].arg) = DefaultParameter(req[d].arg)) =>
         /\ pipeline[c] = pipeline[d]
         /\ Pulses(c) = Pulses(d)

\* The second caller first made a breathing-glass call with other overrides,
\* then the same pulsing-neon call the first caller has made.
C16_Witness ==
  /\ VariantCall("a", "applyPulsingNeon") /\ VariantCall("b", "applyPulsingNeon")
  /\ customStyle["a"] = [text |-> "My Brand", opacity |-> 700]
  /\ customStyle["b"] = customStyle["a"]
  /\ previous["a"] = NoRequest
  /\ previous["b"].kind = "createBreathingGlass"
  /\ previous["b"].arg = Defined([fontSize |-> 60, styleType |-> "custom"])
  /\ pipeline["a"] = pipeline["b"]
  /\ pipeline["a"][3].alpha = Pulse(700, 70, 30, 45)

\* C17: in the glass video build, whatever gradientOverlay, borderWidth and
\* shimmerEffect are, and in applyFrostedGlass, every stage reads the source
\* input or a label an earlier stage produces, no label is produced twice, and
\* the last stage produces [final].
C17_GlassStagesAreInDependencyOrder ==
  \A c \in Calls :
    (Applied(c) /\ req[c].family = "glass"
       /\ req[c].kind \in {"video", "applyFrostedGlass"}) =>
    LET p == pipeline[c]
        Produced(q, i) == {q[i].out[k] : k \in 1..Len(q[i].out)}
    IN /\ Len(p) > 0
       /\ \A i \in 1..Len(p) :
            /\ p[i].op = "stage"
            /\ \/ p[i].in = "0:v"
               \/ \E j \in 1..(i - 1) : p[i].in \in Produced(p, j)
            /\ Cardinality(Produced(p, i)) = Len(p[i].out)
            /\ \A j \in 1..Len(p) : j # i => Produced(p, i) \cap Produced(p, j) = {}
       /\ p[Len(p)].out = <<"final">>

\* The video build with the gradient, the border and the shimmer all on: seven
\* stages, the last one reading [glass_complete].
C17_Witness ==
  /\ Applied("a")
  /\ req["a"].family = "glass"
  /\ req["a"].kind = "video"
  /\ style["a"].gradientOverlay /\ style["a"].borderWidth > 0 /\ style["a"].shimmerEffect
  /\ Len(pipeline["a"]) = 7
  /\ pipeline["a"][4].in = "glass_base"
  /\ pipeline["a"][7].in = "glass_complete"
  /\ pipeline["a"][7].chain # <<NullOp>>

\* C18: getPresetStyles of the downloader has exactly the keys
\* family_presetName of the registered families' presets, each with the
\* preset's bundle and styleType = family; getAvailableStyles lists the same
\* pairs; two different pairs never share a key.
C18_PresetListingsCoverRegisteredPresets ==
  LET PresetNames == UNION {DOMAIN getPresetStyles(family) : family \in Families}
      RegisteredPairs ==
        {pair \in Families \X PresetNames :
           /\ pair[1] \in Registered(downloader.watermarkStyles)
           /\ pair[2] \in DOMAIN getPresetStyles(pair[1])}
      ListedPairs ==
        {pair \in Families \X PresetNames :
           \E i \in 1..Len(downloader.styles) :
              /\ downloader.styles[i].name = pair[1]
              /\ pair[2] \in downloader.styles[i].presets}
  IN /\ "getPresetStyles" \in downloader.asked =>
          /\ DOMAIN downloader.allPresets =
               {PresetKey(pair[1], pair[2]) : pair \in RegisteredPairs}
          /\ \A pair \in RegisteredPairs :
               downloader.allPresets[PresetKey(pair[1], pair[2])] =
                 Merge(getPresetStyles(pair[1])[pair[2]], [styleType |-> pair[1]])
          /\ Cardinality(DOMAIN downloader.allPresets) = Cardinality(RegisteredPairs)
     /\ "getAvailableStyles" \in downloader.asked =>
          /\ ListedPairs = RegisteredPairs
          /\ {downloader.styles[i].name : i \in 1..Len(downloader.styles)} =
               Registered(downloader.watermarkStyles)
          /\ Len(downloader.styles) = Len(downloader.watermarkStyles)

\* Every module of the directory is registered and both listings were asked
\* for: the film presets with an underscore in their name and the preset
\* names two families share have their own keys.
C18_Witness ==
  /\ downloader.asked = {"getPresetStyles", "getAvailableStyles"}
  /\ Registered(downloader.watermarkStyles) = Families
  /\ downloader.allPresets["filmvint_silent_film"].styleType = "filmvint"
  /\ downloader.allPresets["neon_cyberpunk"].styleType = "neon"
  /\ downloader.allPresets["holo_cyberpunk"].styleType = "holo"
  /\ Len(downloader.styles) = 6

\* C20: a download that names an unregistered style family is reported to the
\* caller as failed: no other family's styler is used in its place, and the
\* download does not report success with the watermark step left out.
C20_UnknownFamilyIsReported ==
  LET download == downloader.download["a"]
  IN (/\ download.state = "returned"
      /\ download.addWatermark
      /\ download.watermarkStyle.defined
      /\ "styleType" \in DOMAIN download.watermarkStyle.obj
      /\ download.watermarkStyle.obj.styleType \notin Registered(downloader.watermarkStyles))
     => /\ ~download.result.success
        /\ runs["a"] = 0

\* C19: a variant entry point called with overrides O hands the renderer the
\* filter the family's standard video build gives for O layered with the
\* variant's fixed fields, so the toggles in O act as they do in applyToVideo.
C19_VariantIsStandardBuildOfBundle ==
  \A c \in Calls :
    (Applied(c) /\ req[c].kind \in {"applyAgedFilm", "createStampEffect", "applyMatrixEffect",
                                     "applyQuantumFlux", "createBreathingGlass",
                                     "applyFrostedGlass", "applyPulsingNeon"}) =>
      /\ style[c] = Merge(Merge(ConstructedDefaults[req[c].family],
                                DefaultParameter(req[c].arg)),
                          VariantFixedFields(req[c].kind))
      /\ ~BuildThrows(req[c].family, "video", style[c])
      /\ pipeline[c] = BuildFilter(req[c].family, "video", style[c])

\* C21: in the vintage video and image filters, whatever sepia, noise,
\* vignette, borderStyle, enableEmboss and enablePatina are, the operations
\* come in the order sepia, noise, vignette, border box, embossed text, patina
\* text, main text; each is there only when its toggle is on, and the main
\* text is always there and last.
C21_VintageLayersKeepTheirOrder ==
  \A c \in Calls :
    (Applied(c) /\ req[c].family = "vintage" /\ req[c].kind \in {"video", "image"}) =>
      LET p == pipeline[c]
          s == style[c]
          Rank(o) == CASE o.op = "colorchannelmixer" -> 1
                       [] o.op = "noise" -> 2
                       [] o.op = "vignette" -> 3
                       [] o.op = "drawbox" /\ o.layer = "border" -> 4
                       [] o.op = "drawtext" /\ o.layer = "emboss" -> 5
                       [] o.op = "drawtext" /\ o.layer = "patina" -> 6
                       [] o.op = "drawtext" /\ o.layer = "main" -> 7
                       [] OTHER -> 0
          Enabled(r) == CASE r = 1 -> s.sepia
                          [] r = 2 -> s.noise > 0
                          [] r = 3 -> s.vignette
                          [] r = 4 -> s.borderStyle = "ornate"
                          [] r = 5 -> s.enableEmboss
                          [] r = 6 -> s.enablePatina
                          [] OTHER -> r = 7
      IN /\ Len(p) > 0
         /\ Rank(p[Len(p)]) = 7
         /\ \A i \in 1..Len(p) : Enabled(Rank(p[i]))
         /\ \A i \in 1..(Len(p) - 1) : Rank(p[i]) < Rank(p[i + 1])
         /\ req[c].kind = "video" =>
              \A r \in 1..6 : Enabled(r) => \E i \in 1..Len(p) : Rank(p[i]) = r

\* The video filter with every toggle on: seven operations.
C21_Witness ==
  /\ Applied("a") /\ req["a"].family = "vintage" /\ req["a"].kind = "video"
  /\ style["a"].sepia /\ style["a"].noise > 0 /\ style["a"].vignette
  /\ style["a"].borderStyle = "ornate" /\ style["a"].enableEmboss /\ style["a"].enablePatina
  /\ Len(pipeline["a"]) = 7
  /\ pipeline["a"][4].layer = "border"
  /\ pipeline["a"][5].layer = "emboss"
  /\ pipeline["a"][6].layer = "patina"
  /\ pipeline["a"][7].layer = "main"

\* C22: in the holographic filters, chromaticAberration = c > 0 gives exactly
\* three chromatic layers, red, green and blue, at x-c, x and x+c and the same
\* y, all drawn before every rainbow and every prism layer; c <= 0 gives none.
C22_ChromaticTriadBeforeColoredText ==
  \A c \in Calls :
    (Applied(c) /\ req[c].family = "holo" /\ req[c].kind \in {"video", "image"}) =>
      LET p == pipeline[c]
          offset == style[c].chromaticAberration
          triad == {i \in 1..Len(p) : p[i].layer = "chromatic"}
          colored == {j \in 1..Len(p) : p[j].layer \in {"rainbow", "prism"}}
      IN IF offset > 0
         THEN /\ Cardinality(triad) = 3
              /\ \E i \in triad :
                   /\ triad = {i, i + 1, i + 2}
                   /\ p[i].fontcolor = "#ff0000"
                   /\ p[i + 1].fontcolor = "#00ff00"
                   /\ p[i + 2].fontcolor = "#0000ff"
                   /\ p[i].x = MinusPx(p[i + 1].x, offset)
                   /\ p[i + 2].x = PlusPx(p[i + 1].x, offset)
                   /\ p[i].y = p[i + 1].y /\ p[i + 2].y = p[i + 1].y
              /\ \A i \in triad, j \in colored : i < j
         ELSE triad = {}

\* C23: in the neon video pipeline built with blinkEffect, the main text
\* layer's opacity is the step expression (the base opacity when
\* floor(t*animationSpeed*2) mod 2 is not 0, the base times 0.3 otherwise) and
\* everything else equals the pipeline built with blinkEffect disabled, for
\* every display text, colour and opacity.  Stated as claimed.
C23_BlinkChangesOnlyMainOpacity ==
  \A c \in Calls :
    (NeonCall(c) /\ req[c].kind = "video" /\ style[c].blinkEffect) =>
      LET p == pipeline[c]
          steady == Neon_buildNeonFilter([style[c] EXCEPT !.blinkEffect = FALSE])
      IN /\ Len(p) = Len(steady)
         /\ \A i \in 1..(Len(p) - 1) : p[i] = steady[i]
         /\ p[Len(p)].alpha =
              IfMod(style[c].animationSpeed * 2, 2, style[c].opacity,
                    Scale(style[c].opacity, 3))
         /\ [p[Len(p)] EXCEPT !.alpha = steady[Len(p)].alpha] = steady[Len(p)]

\* C24: for every anchor the depth duplicate of the main text sits at the main
\* text's position displaced by the fixed pixel delta on both axes: the
\* vintage emboss at (x + shadowOffset, y + shadowOffset) in the video and the
\* image filter, the glass depth layer at (textX + 2, textY + 2) and the glass
\* highlight at (textX, textY - 1).  Stated as claimed.
C24_DepthDuplicateIsMainDisplaced ==
  \A c \in Calls :
    (Applied(c) /\ req[c].family \in {"vintage", "glass"}
       /\ req[c].kind \in {"video", "image"}) =>
      LET ops == TextOps(pipeline[c])
          Layer(name) == {ops[i] : i \in {j \in DOMAIN ops : ops[j].layer = name}}
          \* d denotes the coordinate c0 moved by k pixels
          Displaced(c0, k, d) ==
            \/ k >= 0 /\ d = PlusPx(c0, k)
            \/ k < 0 /\ d = MinusPx(c0, 0 - k)
            \/ c0.form = "px" /\ d = Px(c0.n + k)
            \/ c0.form = "plus" /\ d = PlusPx(c0.base, c0.n + k)
      IN \A m \in Layer("main") :
           /\ \A e \in Layer("emboss") :
                /\ Displaced(m.x, style[c].shadowOffset, e.x)
                /\ Displaced(m.y, style[c].shadowOffset, e.y)
           /\ \A d \in Layer("depth") :
                Displaced(m.x, 2, d.x) /\ Displaced(m.y, 2, d.y)
           /\ \A h \in Layer("highlight") :
                h.x = m.x /\ Displaced(m.y, -1, h.y)

\* C25: for every base font size F and glow intensity G >= 0 the neon glow
\* duplicates are drawn largest first: their font sizes strictly decrease in
\* draw order and each is strictly larger than F.  Stated as claimed.
C25_GlowSizesDecreaseAboveMain ==
  \A c \in Calls :
    (NeonCall(c) /\ style[c].glowIntensity >= 0) =>
      LET glow == BeforeMain(pipeline[c])
      IN /\ \A i \in 1..(Len(glow) - 1) : glow[i].fontsize > glow[i + 1].fontsize
         /\ \A i \in 1..Len(glow) : glow[i].fontsize > style[c].fontSize

\* C26: in the glass video build and in applyFrostedGlass every buffer a stage
\* other than the last produces is read by a later stage; in particular the
\* buffer of the blurred-crop stage is read.  Stated as claimed.
C26_EveryProducedBufferIsRead ==
  \A c \in Calls :
    (Applied(c) /\ req[c].family = "glass"
       /\ req[c].kind \in {"video", "applyFrostedGlass"}) =>
      LET p == pipeline[c]
      IN \A i \in 1..(Len(p) - 1) : \A k \in 1..Len(p[i].out) :
           \E j \in (i + 1)..Len(p) : p[j].in = p[i].out[k]

\* C27: downloadVideo and downloadImages never reject or stay unsettled on a
\* failure: a fetch that is not successful, a missing quality or image list,
\* a download stream error and a render error all come back as the value
\* {success: false, error}, and a result with success = true carries a path
\* (or a non-empty list of paths) to a file the call produced and that exists.
\* Stated as claimed.
C27_DownloadFailuresAreReturnedValues ==
  \A c \in Calls :
    LET download == downloader.download[c]
        produced == (download.downloaded \cup download.rendered) \cap downloader.tempDir
        failed == /\ ~download.result.success
                  /\ DOMAIN download.result = {"success", "error"}
                  /\ download.result.error # "-"
    IN /\ download.state \in {"idle", "looping", "awaiting", "returned"}
       /\ download.stream \in {"writer error", "response error"} =>
            download.state = "returned" /\ failed
       /\ (download.state = "returned" /\ pc[c] \in {"rejected", "threw TypeError"}) => failed
       /\ download.state = "returned" =>
            \/ failed
            \/ /\ download.result.success
               /\ download.kind = "video"
               /\ download.result.path \in produced
            \/ /\ download.result.success
               /\ download.kind = "images"
               /\ Len(download.result.paths) > 0
               /\ \A i \in 1..Len(download.result.paths) :
                    download.result.paths[i] \in produced

\* C28: in a download with a watermark requested and a styler found, the
\* original file is deleted only after the styler's apply call has resolved;
\* when the render fails the original is still there and the call returns
\* success = false; on success every returned path is the watermarked file and
\* no original is left.
C28_OriginalDeletedOnlyAfterRender ==
  \A c \in Calls :
    LET download == downloader.download[c]
        styleType == IF "styleType" \in DOMAIN download.watermarkStyle.obj
                     THEN download.watermarkStyle.obj.styleType ELSE "glitch"
        styler == getStyler(downloader.watermarkStyles, styleType)
        watermarked(f) == [dir |-> f.dir, file |-> "watermarked_" \o f.file]
        paths == IF download.kind = "video"
                 THEN {download.result.path}
                 ELSE {download.result.paths[i] : i \in 1..Len(download.result.paths)}
    IN (download.addWatermark /\ download.watermarkStyle.defined /\ styler # "null") =>
         /\ \A f \in download.unlinked : watermarked(f) \in download.rendered
         /\ download.state = "awaiting" =>
              /\ download.filepath \in downloader.tempDir
              /\ download.filepath \notin download.unlinked
         /\ (/\ download.state = "returned"
             /\ download.stream = "finish"
             /\ pc[c] \in {"rejected", "threw TypeError"} \/ styler = "inherited") =>
              /\ ~download.result.success
              /\ download.filepath \in downloader.tempDir
              /\ download.filepath \notin download.unlinked
         /\ (download.state = "returned" /\ download.result.success) =>
              /\ paths = {watermarked(f) : f \in download.downloaded}
              /\ paths \subseteq download.rendered \cap downloader.tempDir
              /\ download.unlinked = download.downloaded
              /\ download.downloaded \cap downloader.tempDir = {}
              /\ download.kind = "images" => Len(download.result.paths) = download.n

\* A video watermarked by the neon styler: the watermarked file is returned
\* and the download is gone.
C28_Witness ==
  LET download == downloader.download["a"]
  IN /\ download.state = "returned"
     /\ download.kind = "video"
     /\ download.styler = "neon"
     /\ pc["a"] = "resolved"
     /\ download.result.success
     /\ download.result.path = [dir |-> "./temp", file |-> "watermarked_tiktok_1762214400000.mp4"]
     /\ download.unlinked = {[dir |-> "./temp", file |-> "tiktok_1762214400000.mp4"]}
     /\ downloader.tempDir = {download.result.path}

\* C29: a download that returns success with metadata.watermarked = true
\* returns only watermarked files rendered by a styler's apply call, never the
\* unmodified download, whatever addWatermark, watermarkStyle and the
\* registered stylers are.  Stated as claimed.
C29_WatermarkedResultIsRendered ==
  \A c \in Calls :
    LET download == downloader.download[c]
        paths == IF download.kind = "video"
                 THEN {download.result.path}
                 ELSE {download.result.paths[i] : i \in 1..Len(download.result.paths)}
    IN (/\ download.state = "returned"
        /\ download.result.success
        /\ download.result.watermarked) =>
         /\ paths \subseteq download.rendered
         /\ paths \cap download.downloaded = {}

\* C30: two downloadVideo calls running at once on the same downloader never
\* use the same temp file, also when both read the same clock value: the
\* download target and the watermarked output of one call differ from those of
\* the other, and a file a call has returned is still there.  Stated as
\* claimed.
C30_ConcurrentDownloadsUseDistinctFiles ==
  LET a == downloader.download["a"]
      b == downloader.download["b"]
      watermarked(f) == [dir |-> f.dir, file |-> "watermarked_" \o f.file]
      Files(download) == {download.filepath, watermarked(download.filepath)}
  IN (a.state # "idle" /\ b.state # "idle") =>
       /\ Files(a) \cap Files(b) = {}
       /\ \A c \in Calls :
            (downloader.download[c].state = "returned"
               /\ downloader.download[c].result.success) =>
              downloader.download[c].result.path \in downloader.tempDir

====
